---- MODULE Spec2Model ----
(***************************************************************************)
(* Model of nanobot's persistent-memory subsystem:                         *)
(*   - MemoryConsolidator.consolidate   (agent/memory_consolidator.py)     *)
(*   - MemorySearchTool                 (agent/tools/memory.py)            *)
(*   - MemoryStore.search_daily_memories (agent/memory.py)                 *)
(***************************************************************************)
EXTENDS Integers, Sequences, FiniteSets, TLC

(***************************************************************************)
(* Bounds of the model.                                                    *)
(***************************************************************************)
\* longest batch of old messages handed to consolidate
MaxBatch == 2
\* most tool invocations the provider puts in one response
MaxToolCalls == 2

(***************************************************************************)
(* Values that stand for Python values the code has to cope with.          *)
(***************************************************************************)
\* a key absent from a message dict
MISSING == "<missing>"
\* a value that is present but is not a str (None, an int, ...)
NONSTR == "<not-a-str>"
\* no value yet (a variable the code has not assigned)
NONE == "<none>"

(***************************************************************************)
(* Generic helpers.                                                        *)
(***************************************************************************)
Min(a, b) == IF a <= b THEN a ELSE b

\* all sequences over S of length 0..n
RECURSIVE SeqsUpTo(_, _)
SeqsUpTo(S, n) ==
    IF n = 0 THEN {<<>>}
    ELSE LET shorter == SeqsUpTo(S, n - 1)
         IN  shorter \cup {Append(s, x) : s \in {t \in shorter : Len(t) = n - 1}, x \in S}

\* "\n".join(lines)
RECURSIVE JoinLines(_)
JoinLines(lines) ==
    IF lines = <<>> THEN ""
    ELSE IF Len(lines) = 1 THEN lines[1]
    ELSE lines[1] \o "\n" \o JoinLines(Tail(lines))

(***************************************************************************)
(* Conversation turns and their timestamps.                                *)
(* A timestamp string that datetime.fromisoformat accepts is modelled by   *)
(* the datetime it parses to: naive or timezone-aware, its position on the *)
(* time line (minutes, used by min/max) and its local HH:MM text.          *)
(***************************************************************************)
TS_0900 == [kind |-> "naive", at |-> 540, hhmm |-> "09:00"]
TS_0945 == [kind |-> "naive", at |-> 585, hhmm |-> "09:45"]
\* the next day, earlier on the clock
TS_NEXT_0830 == [kind |-> "naive", at |-> 1950, hhmm |-> "08:30"]
\* 09:20+00:00
TS_AWARE_0920 == [kind |-> "aware", at |-> 560, hhmm |-> "09:20"]
\* a str that fromisoformat rejects
TS_BAD == [kind |-> "bad", at |-> 0, hhmm |-> ""]
\* a truthy value that is not a str
TS_NONSTR == [kind |-> "nonstr", at |-> 0, hhmm |-> ""]
\* key absent, None or ""
TS_MISSING == [kind |-> "missing", at |-> 0, hhmm |-> ""]

Timestamps ==
    {TS_0900, TS_0945, TS_NEXT_0830, TS_AWARE_0920, TS_BAD, TS_NONSTR, TS_MISSING}

Turn(r, c, t) == [role |-> r, content |-> c, timestamp |-> t]

Turns ==
    {Turn("user", "hi", t) : t \in Timestamps}
        \cup {Turn(r, "hi", t) : r \in {MISSING, NONSTR}, t \in {TS_MISSING, TS_0900}}
        \cup {Turn("assistant", MISSING, TS_0945), Turn("assistant", NONSTR, TS_MISSING)}

Batches == SeqsUpTo(Turns, MaxBatch)

\* a batch every step of the task building accepts
PlainBatch == <<Turn("user", "hi", TS_0900), Turn("assistant", MISSING, TS_0945)>>

(***************************************************************************)
(* MemoryConsolidator: building the task.                                  *)
(* An operation that may raise returns [exc |-> text or NONE, val |-> v].  *)
(***************************************************************************)
Ok(v) == [exc |-> NONE, val |-> v]
Raise(text) == [exc |-> text, val |-> NONE]

\* datetime.fromisoformat(ts) succeeds
Parses(ts) == ts.kind \in {"naive", "aware"}

\* str.upper() of the roles the model uses
Upper(role) ==
    CASE role = "user" -> "USER"
      [] role = "assistant" -> "ASSISTANT"
      [] role = "unknown" -> "UNKNOWN"
      [] OTHER -> role

\* msg.get("role", "unknown")
RoleOf(msg) == IF msg.role = MISSING THEN "unknown" ELSE msg.role

\* msg.get("content", "") as the f-string renders it
ContentOf(msg) ==
    IF msg.content = MISSING THEN ""
    ELSE IF msg.content = NONSTR THEN "None"
    ELSE msg.content

\* the time_str of _format_messages: "" unless the timestamp is truthy and parses
TimeStr(msg) ==
    IF msg.timestamp.kind # "missing" /\ Parses(msg.timestamp)
    THEN msg.timestamp.hhmm
    ELSE ""

\* one line of _format_messages; role.upper() is taken of whatever role is
FormatLine(i, msg) ==
    IF TimeStr(msg) # ""
    THEN "[" \o TimeStr(msg) \o "] " \o Upper(RoleOf(msg)) \o ": " \o ContentOf(msg)
    ELSE ToString(i) \o ". " \o Upper(RoleOf(msg)) \o ": " \o ContentOf(msg)

\* role.upper() raises AttributeError when the role is not a str
FormatMessages(msgs) ==
    IF \E i \in 1..Len(msgs) : RoleOf(msgs[i]) = NONSTR
    THEN Raise("object has no attribute 'upper'")
    ELSE Ok(JoinLines([i \in 1..Len(msgs) |-> FormatLine(i, msgs[i])]))

\* the datetimes _get_time_range collects, in batch order
ParsedTimestamps(msgs) ==
    LET keep(m) == m.timestamp.kind # "missing" /\ Parses(m.timestamp)
        kept == SelectSeq(msgs, keep)
    IN  [i \in 1..Len(kept) |-> kept[i].timestamp]

\* min()/max() of datetimes compare them; naive against aware is a TypeError
Comparable(stamps) ==
    \A i, j \in 1..Len(stamps) : stamps[i].kind = stamps[j].kind

Earliest(stamps) ==
    CHOOSE t \in {stamps[i] : i \in 1..Len(stamps)} :
        \A i \in 1..Len(stamps) : t.at <= stamps[i].at

Latest(stamps) ==
    CHOOSE t \in {stamps[i] : i \in 1..Len(stamps)} :
        \A i \in 1..Len(stamps) : t.at >= stamps[i].at

GetTimeRange(msgs) ==
    LET stamps == ParsedTimestamps(msgs)
    IN  IF stamps = <<>> THEN Ok("Unknown time")
        ELSE IF ~Comparable(stamps)
        THEN Raise("can't compare offset-naive and offset-aware datetimes")
        ELSE Ok(Earliest(stamps).hhmm \o "-" \o Latest(stamps).hhmm)

\* the part of the task text that depends on the batch
BuildTaskDescription(msgs) ==
    LET conversation_text == FormatMessages(msgs)
        time_range == GetTimeRange(msgs)
    IN  IF conversation_text.exc # NONE THEN conversation_text
        ELSE IF time_range.exc # NONE THEN time_range
        ELSE Ok("Time Range: " \o time_range.val \o "\n\n" \o conversation_text.val)

(***************************************************************************)
(* MemoryConsolidator.consolidate: the tool-calling loop.                  *)
(***************************************************************************)
MaxIterations == 10

MSG_EMPTY == "No messages to consolidate"
MSG_DONE == "Memory consolidation completed"
MSG_MAX == "Memory consolidation completed (max iterations reached)"

ToolNames == <<"read_file", "write_file", "edit_file">>

\* the i-th invocation of a provider response: identifier, tool name, arguments
ToolCall(i) ==
    [id |-> (i * 3) % 7, name |-> ToolNames[(i % 3) + 1], arguments |-> "MEMORY.md"]

\* a provider response carrying n invocations (n = 0: plain content)
ProviderResponse(n) == [i \in 1..n |-> ToolCall(i)]

JsonDumps(arguments) == "{\"path\": \"" \o arguments \o "\"}"

SystemTurn == [role |-> "system", content |-> "You are a memory consolidation agent."]
UserTurn(task) == [role |-> "user", content |-> task]

ToolCallDict(tc) ==
    [id |-> tc.id, type |-> "function",
     function |-> [name |-> tc.name, arguments |-> JsonDumps(tc.arguments)]]

AssistantTurn(calls) ==
    [role |-> "assistant", content |-> "",
     tool_calls |-> [i \in 1..Len(calls) |-> ToolCallDict(calls[i])]]

ToolTurn(tc, text) ==
    [role |-> "tool", tool_call_id |-> tc.id, name |-> tc.name, content |-> text]

\* the empty-batch test left out
IsEmptyBatch_Never(msgs) == FALSE

\* if not old_messages
IsEmptyBatch(msgs) == msgs = <<>>

\* the loop test off by one
LoopContinues_Inclusive(it) == it <= MaxIterations

\* while iteration < max_iterations
LoopContinues(it) == it < MaxIterations

\* response.has_tool_calls
HasToolCalls(calls) == Len(calls) > 0

\* the for loop walking the invocations backwards
NextToolCall_Reversed(calls, k) == calls[Len(calls) - k + 1]

\* the invocation the for loop takes at its k-th turn
NextToolCall(calls, k) == calls[k]

\* the except clause dropping the exception's text
FailureResult_NoReason(reason) == "Memory consolidation failed"

\* the except clause's return value
FailureResult(reason) == "Memory consolidation failed: " \o reason

(***************************************************************************)
(* Text.  A str is a sequence of one-character strings.                    *)
(***************************************************************************)
Digits == {"0", "1", "2", "3", "4", "5", "6", "7", "8", "9"}
Letters == {"a", "c", "d", "m", "A", "C", "E", "M", "O", "R", "Y"}
\* what \w matches
IsWord(ch) == ch \in Digits \cup Letters \cup {"_"}
\* what str.rstrip() strips
IsSpace(ch) == ch \in {" ", "\t", "\n"}

\* case folding of re.IGNORECASE
Lower(ch) ==
    CASE ch = "A" -> "a"
      [] ch = "C" -> "c"
      [] ch = "E" -> "e"
      [] ch = "M" -> "m"
      [] ch = "O" -> "o"
      [] ch = "R" -> "r"
      [] ch = "Y" -> "y"
      [] OTHER -> ch

\* the str a sequence of characters stands for
RECURSIVE Str(_)
Str(chars) ==
    IF chars = <<>> THEN ""
    ELSE IF Len(chars) = 1 THEN chars[1]
    ELSE LET half == Len(chars) \div 2
         IN  Str(SubSeq(chars, 1, half)) \o Str(SubSeq(chars, half + 1, Len(chars)))

\* line.rstrip()
RECURSIVE RStrip(_)
RStrip(line) ==
    IF line = <<>> THEN line
    ELSE IF IsSpace(line[Len(line)]) THEN RStrip(SubSeq(line, 1, Len(line) - 1))
    ELSE line

\* sep.join(parts)
RECURSIVE Join(_, _)
Join(sep, parts) ==
    IF parts = <<>> THEN ""
    ELSE IF Len(parts) = 1 THEN parts[1]
    ELSE parts[1] \o sep \o Join(sep, Tail(parts))

\* s without its repeated elements, first occurrences kept
RECURSIVE Dedupe(_)
Dedupe(s) ==
    IF s = <<>> THEN s
    ELSE LET front == Dedupe(SubSeq(s, 1, Len(s) - 1))
             x == s[Len(s)]
         IN  IF \E i \in 1..Len(front) : front[i] = x THEN front ELSE Append(front, x)

(***************************************************************************)
(* Python's re, on patterns made of ( ) + * and characters that stand for  *)
(* themselves ("{" is one: no "}" follows it).  CPython 3.11 semantics: a  *)
(* "+" right after a quantifier makes it possessive.                       *)
(* A regex pattern is [body, pad]: the characters of body followed by pad  *)
(* times the letter "a"; the tail holds no parenthesis, quantifier, brace  *)
(* or digit.                                                               *)
(***************************************************************************)
Pattern(body, pad) == [body |-> body, pad |-> pad]
PatternLen(pat) == Len(pat.body) + pat.pad
PatternChars(pat) == pat.body \o [i \in 1..pat.pad |-> "a"]

Lit(ch) == [kind |-> "lit", ch |-> ch, min |-> 0, poss |-> FALSE, items |-> <<>>]
Group(items) == [kind |-> "group", ch |-> "", min |-> 0, poss |-> FALSE, items |-> items]
Repeat(min, poss, item) ==
    [kind |-> "rep", ch |-> "", min |-> min, poss |-> poss, items |-> <<item>>]

ParseError(at) == [err |-> TRUE, items |-> <<>>, next |-> at]

\* sre_parse: the items from position i up to the end or an unopened ")"
RECURSIVE ParseItems(_, _, _)
ParseItems(p, i, items) ==
    IF i > Len(p) \/ p[i] = ")"
    THEN [err |-> FALSE, items |-> items, next |-> i]
    ELSE IF p[i] = "("
    THEN LET inner == ParseItems(p, i + 1, <<>>)
         IN  IF inner.err THEN inner
             ELSE IF inner.next > Len(p) THEN ParseError(inner.next)
             ELSE ParseItems(p, inner.next + 1, Append(items, Group(inner.items)))
    ELSE IF p[i] \in {"+", "*"}
    THEN IF items = <<>> THEN ParseError(i)
         ELSE LET last == items[Len(items)]
                  poss == i + 1 <= Len(p) /\ p[i + 1] = "+"
                  node == Repeat(IF p[i] = "+" THEN 1 ELSE 0, poss, last)
              IN  IF last.kind = "rep" THEN ParseError(i)
                  ELSE ParseItems(p, IF poss THEN i + 2 ELSE i + 1,
                                  Append(SubSeq(items, 1, Len(items) - 1), node))
    ELSE ParseItems(p, i + 1, Append(items, Lit(p[i])))

\* re.compile(body) does not raise re.error
CompilesBody(body) ==
    LET parsed == ParseItems(body, 1, <<>>)
    IN  ~parsed.err /\ parsed.next > Len(body)

\* re.compile(pattern, re.IGNORECASE) does not raise re.error
Compiles(pat) == CompilesBody(pat.body)

\* the compiled pattern's items for the body; the tail's literals follow them
CompiledItems(pat) == ParseItems(pat.body, 1, <<>>).items

\* the positions where a match of node that starts at i can end, in the
\* order the backtracking engine tries them
RECURSIVE Ends(_, _, _)
RECURSIVE EndsSeq(_, _, _, _)
RECURSIVE Star(_, _, _)
RECURSIVE CatStar(_, _, _, _, _)
RECURSIVE CatSeq(_, _, _, _, _)

Ends(node, s, i) ==
    IF node.kind = "lit"
    THEN IF i <= Len(s) /\ Lower(s[i]) = Lower(node.ch) THEN <<i + 1>> ELSE <<>>
    ELSE IF node.kind = "group"
    THEN EndsSeq(node.items, 1, s, i)
    ELSE LET item == node.items[1]
             all == IF node.min = 0
                    THEN Star(item, s, i)
                    ELSE Dedupe(CatStar(item, s, Ends(item, s, i), 1, 0))
         IN  IF node.poss /\ all # <<>> THEN <<all[1]>> ELSE all

\* item*, from i: one more item that consumes something, or stop
Star(item, s, i) == Dedupe(CatStar(item, s, Ends(item, s, i), 1, i) \o <<i>>)

CatStar(item, s, es, k, after) ==
    IF k > Len(es) THEN <<>>
    ELSE (IF es[k] > after THEN Star(item, s, es[k]) ELSE <<>>)
             \o CatStar(item, s, es, k + 1, after)

\* items[k..] in sequence, from i
EndsSeq(items, k, s, i) ==
    IF k > Len(items) THEN <<i>>
    ELSE Dedupe(CatSeq(items, k + 1, s, Ends(items[k], s, i), 1))

CatSeq(items, k, s, es, j) ==
    IF j > Len(es) THEN <<>>
    ELSE EndsSeq(items, k, s, es[j]) \o CatSeq(items, k, s, es, j + 1)

\* the tail's literals match line from position e on
TailMatches(pat, line, e) ==
    /\ e + pat.pad - 1 <= Len(line)
    /\ \A t \in 0..(pat.pad - 1) : Lower(line[e + t]) = "a"

\* compiled.search(line) finds a match
RegexSearch(pat, line) ==
    LET items == CompiledItems(pat)
    IN  \E i \in 1..(Len(line) + 1) :
            LET ends == EndsSeq(items, 1, line, i)
            IN  \E k \in 1..Len(ends) : TailMatches(pat, line, ends[k])

\* \b at position q of line: between line[q-1] and line[q]
WordBoundary(line, q) ==
    LET left == q > 1 /\ IsWord(line[q - 1])
        right == q <= Len(line) /\ IsWord(line[q])
    IN  left # right

\* line[q..q+Len(kw)-1] is kw, case-insensitively
OccursAt(kw, line, q) ==
    /\ q + Len(kw) - 1 <= Len(line)
    /\ \A i \in 1..Len(kw) : Lower(line[q + i - 1]) = Lower(kw[i])

\* re.compile(r'\b' + re.escape(keyword) + r'\b', re.IGNORECASE).search(line)
KeywordSearch(kw, line) ==
    \E q \in 1..(Len(line) + 1) :
        /\ OccursAt(kw, line, q)
        /\ WordBoundary(line, q)
        /\ WordBoundary(line, q + Len(kw))

(***************************************************************************)
(* MemorySearchTool._validate_regex.                                       *)
(***************************************************************************)
MaxPatternLength == 500

\* re.search(r'\([^)]*Q1[^)]*\)Q2', body)
NestedQuantifier(body, q1, q2) ==
    \E i \in 1..Len(body) : \E j \in (i + 1)..(Len(body) - 1) :
        /\ body[i] = "("
        /\ body[j] = ")"
        /\ body[j + 1] = q2
        /\ \A t \in (i + 1)..(j - 1) : body[t] # ")"
        /\ \E k \in (i + 1)..(j - 1) : body[k] = q1

\* re.search(r'{\d{3,}', body)
LargeRepetition(body) ==
    \E i \in 1..(Len(body) - 3) :
        /\ body[i] = "{"
        /\ \A t \in 1..3 : body[i + t] \in Digits

\* one of the five dangerous_patterns is found
HasDangerousConstruct(body) ==
    \/ NestedQuantifier(body, "+", "+")
    \/ NestedQuantifier(body, "*", "*")
    \/ NestedQuantifier(body, "*", "+")
    \/ NestedQuantifier(body, "+", "*")
    \/ LargeRepetition(body)

\* len(pattern) > 500
TooLong(pat) == PatternLen(pat) > MaxPatternLength

ValidateRegex(pat) ==
    IF TooLong(pat) THEN FALSE
    ELSE IF HasDangerousConstruct(pat.body) THEN FALSE
    ELSE Compiles(pat)

(***************************************************************************)
(* The archive directory and the enumeration of its daily files.           *)
(***************************************************************************)
NAME_0101 == <<"2", "0", "2", "4", "-", "0", "1", "-", "0", "1", ".", "m", "d">>
NAME_0102 == <<"2", "0", "2", "4", "-", "0", "1", "-", "0", "2", ".", "m", "d">>
NAME_0103 == <<"2", "0", "2", "4", "-", "0", "1", "-", "0", "3", ".", "m", "d">>
NAME_MEMORY == <<"M", "E", "M", "O", "R", "Y", ".", "m", "d">>
NAME_SHORT == <<"2", "0", "2", "4", "-", "1", "-", "0", "1", ".", "m", "d">>

\* failAfter of a file whose reading never raises
NeverFails == 0 - 1

\* a directory entry; reading a file raises after failAfter lines
Entry(name, isFile, lines, failAfter) ==
    [name |-> name, isFile |-> isFile, lines |-> lines, failAfter |-> failAfter]

\* the memory directory: the path does not exist, is a directory, or is
\* something iterdir() cannot list (a regular file)
NoDirectory == [exists |-> FALSE, isDir |-> FALSE, entries |-> {}]
Directory(entries) == [exists |-> TRUE, isDir |-> TRUE, entries |-> entries]
NotADirectory == [exists |-> TRUE, isDir |-> FALSE, entries |-> {}]

\* self._memory_dir.iterdir() raises
IterdirRaises(dir) == dir.exists /\ ~dir.isDir

\* r'^\d{4}-\d{2}-\d{2}\.md$' matches the name; "$" also matches before a
\* newline that ends the name
IsDailyName(name) ==
    /\ Len(name) = 13 \/ (Len(name) = 14 /\ name[14] = "\n")
    /\ \A i \in {1, 2, 3, 4, 6, 7, 9, 10} : name[i] \in Digits
    /\ name[5] = "-"
    /\ name[8] = "-"
    /\ name[11] = "."
    /\ name[12] = "m"
    /\ name[13] = "d"

\* code points of the characters names are made of
CharCode(ch) ==
    CASE ch = "\n" -> 10
      [] ch = "-" -> 45
      [] ch = "." -> 46
      [] ch = "0" -> 48 [] ch = "1" -> 49 [] ch = "2" -> 50 [] ch = "3" -> 51
      [] ch = "4" -> 52 [] ch = "5" -> 53 [] ch = "6" -> 54 [] ch = "7" -> 55
      [] ch = "8" -> 56 [] ch = "9" -> 57
      [] ch = "E" -> 69 [] ch = "M" -> 77 [] ch = "O" -> 79 [] ch = "R" -> 82
      [] ch = "Y" -> 89
      [] ch = "d" -> 100 [] ch = "m" -> 109
      [] OTHER -> 0

\* a < b as Python compares str
RECURSIVE NameLess(_, _)
NameLess(a, b) ==
    IF b = <<>> THEN FALSE
    ELSE IF a = <<>> THEN TRUE
    ELSE IF CharCode(Head(a)) # CharCode(Head(b))
    THEN CharCode(Head(a)) < CharCode(Head(b))
    ELSE NameLess(Tail(a), Tail(b))

\* sorted(files, reverse=True)
RECURSIVE SortedReverse(_)
SortedReverse(files) ==
    IF files = {} THEN <<>>
    ELSE LET top == CHOOSE f \in files : \A g \in files : ~NameLess(f.name, g.name)
         IN  <<top>> \o SortedReverse(files \ {top})

ToolDailyFiles_NoFileTest(dir) ==
    IF ~dir.exists THEN <<>>
    ELSE SortedReverse({f \in dir.entries : IsDailyName(f.name)})

\* MemorySearchTool._get_daily_memory_files
ToolDailyFiles(dir) ==
    IF ~dir.exists THEN <<>>
    ELSE SortedReverse({f \in dir.entries : f.isFile /\ IsDailyName(f.name)})

\* MemoryStore._get_daily_memory_files
StoreDailyFiles(dir) ==
    IF ~dir.exists THEN <<>>
    ELSE SortedReverse({f \in dir.entries : f.isFile /\ IsDailyName(f.name)})

\* fnmatch of "????-??-??.md": any character for "?", nothing after ".md"
GlobMatches(name) ==
    /\ Len(name) = 13
    /\ name[5] = "-"
    /\ name[8] = "-"
    /\ name[11] = "."
    /\ name[12] = "m"
    /\ name[13] = "d"

\* MemoryStore.list_memory_files; glob yields nothing for a path it cannot list
ListMemoryFiles(dir) ==
    IF ~dir.exists THEN <<>>
    ELSE SortedReverse({f \in dir.entries : GlobMatches(f.name)})

(***************************************************************************)
(* _grep_file of the tool and of the store.                                *)
(* A list argument is [given, items]: given is FALSE for None.             *)
(***************************************************************************)
Absent == [given |-> FALSE, items |-> <<>>]
Given(items) == [given |-> TRUE, items |-> items]

\* not arg
Falsy(arg) == ~arg.given \/ arg.items = <<>>

\* arg or []
OrEmpty(arg) == IF Falsy(arg) THEN <<>> ELSE arg.items

IsEmptyQuery_BothNone(kws, pats) == ~kws.given /\ ~pats.given

\* not keywords and not regex_patterns
IsEmptyQuery(kws, pats) == Falsy(kws) /\ Falsy(pats)

\* a list item that is not a str (None, an int, ...)
NotAStr == <<NONSTR>>
IsStr(chars) == chars # NotAStr
\* a regex_patterns item that is not a str
NotAStrPattern == Pattern(NotAStr, 0)

\* re.escape(keyword) raises TypeError for some keyword
EscapeRaises(kws) == \E i \in 1..Len(kws) : ~IsStr(kws[i])
\* len(pattern) of the tool, re.compile(pattern) of the store raise TypeError
PatternRaises(pats) == \E i \in 1..Len(OrEmpty(pats)) : ~IsStr(OrEmpty(pats)[i].body)

KeywordPattern(kw) == [kind |-> "kw", kw |-> kw, pat |-> Pattern(<<>>, 0)]
RegexPattern(pat) == [kind |-> "re", kw |-> <<>>, pat |-> pat]

\* pattern.search(line)
PatternSearch(compiled, line) ==
    IF compiled.kind = "kw"
    THEN KeywordSearch(compiled.kw, line)
    ELSE RegexSearch(compiled.pat, line)

\* the patterns compiled from the keywords
KeywordPatterns(kws) == [i \in 1..Len(kws) |-> KeywordPattern(kws[i])]

ToolAccepts_CompileOnly(pat) == Compiles(pat)

\* the tool's test of a regex pattern before it compiles it
ToolAccepts(pat) == ValidateRegex(pat) /\ Compiles(pat)

\* the store's: re.compile alone
StoreAccepts(pat) == Compiles(pat)

\* the regex patterns the tool compiles
ToolRegexPatterns(pats) ==
    LET kept == SelectSeq(OrEmpty(pats), ToolAccepts)
    IN  [i \in 1..Len(kept) |-> RegexPattern(kept[i])]

\* the regex patterns the store compiles
StoreRegexPatterns(pats) ==
    LET kept == SelectSeq(OrEmpty(pats), StoreAccepts)
    IN  [i \in 1..Len(kept) |-> RegexPattern(kept[i])]

\* the lines the file object yields before reading raises
LinesRead(f) ==
    IF f.failAfter < 0 THEN f.lines ELSE SubSeq(f.lines, 1, f.failAfter)

ReadFails(f) == f.failAfter >= 0

\* the lines of which some pattern matches, each right-stripped
MatchingLines(compiled, lines) ==
    LET hit(line) == \E i \in 1..Len(compiled) : PatternSearch(compiled[i], line)
        kept == SelectSeq(lines, hit)
    IN  [i \in 1..Len(kept) |-> RStrip(kept[i])]

GrepResult(results, compiled, opened, tested) ==
    [exc |-> NONE, results |-> results, patterns |-> compiled, opened |-> opened,
     tested |-> tested]

\* _grep_file raises while it builds its patterns
GrepRaises(text) ==
    [exc |-> text, results |-> <<>>, patterns |-> <<>>, opened |-> FALSE, tested |-> 0]

TYPE_ERROR == "TypeError"
NOT_A_DIRECTORY_ERROR == "NotADirectoryError"

\* MemorySearchTool._grep_file: on a read error, what was found so far
ToolGrepFile(f, kws, pats) ==
    LET compiled == KeywordPatterns(kws) \o ToolRegexPatterns(pats)
    IN  IF EscapeRaises(kws) \/ PatternRaises(pats) THEN GrepRaises(TYPE_ERROR)
        ELSE IF compiled = <<>> THEN GrepResult(<<>>, compiled, FALSE, 0)
        ELSE GrepResult(MatchingLines(compiled, LinesRead(f)), compiled, TRUE,
                        Len(LinesRead(f)))

\* MemoryStore._grep_file: on a read error, nothing
StoreGrepFile(f, kws, pats) ==
    LET compiled == KeywordPatterns(kws) \o StoreRegexPatterns(pats)
    IN  IF EscapeRaises(kws) \/ PatternRaises(pats) THEN GrepRaises(TYPE_ERROR)
        ELSE IF compiled = <<>> THEN GrepResult(<<>>, compiled, FALSE, 0)
        ELSE GrepResult(IF ReadFails(f) THEN <<>>
                        ELSE MatchingLines(compiled, LinesRead(f)),
                        compiled, TRUE, Len(LinesRead(f)))

(***************************************************************************)
(* MemorySearchTool.execute and MemoryStore.search_daily_memories.         *)
(***************************************************************************)
MSG_NO_QUERY == "Error: No keywords or regex patterns provided"
MSG_NO_FILES == "No historical memory files found."

\* len(all_results) >= max_results
CapReached(all, k) == Len(all) >= k

\* the inner loop: append each result, break once the cap is reached
RECURSIVE AppendResults(_, _, _, _)
AppendResults(all, name, results, k) ==
    IF results = <<>> THEN all
    ELSE LET more == Append(all, [file |-> name, line |-> Head(results)])
         IN  IF CapReached(more, k) THEN more
             ELSE AppendResults(more, name, Tail(results), k)

\* ', '.join(keywords) if keywords else ', '.join(regex_patterns)
SearchTerms(kws, pats) ==
    IF ~Falsy(kws)
    THEN Join(", ", [i \in 1..Len(kws.items) |-> Str(kws.items[i])])
    ELSE Join(", ", [i \in 1..Len(OrEmpty(pats)) |-> Str(PatternChars(OrEmpty(pats)[i]))])

RECURSIVE ToolListing(_, _)
ToolListing(all, i) ==
    IF i > Len(all) THEN ""
    ELSE ToString(i) \o ". [" \o Str(all[i].file) \o "] " \o Str(all[i].line) \o "\n"
             \o ToolListing(all, i + 1)

\* the listing with its entries numbered from 0
ToolOutput_FromZero(all, kws, pats) ==
    IF all = <<>> THEN "No matches found for: " \o SearchTerms(kws, pats)
    ELSE "Found " \o ToString(Len(all)) \o " relevant memories:\n\n"
            \o Join("", [j \in 1..Len(all) |->
                           ToString(j - 1) \o ". [" \o Str(all[j].file) \o "] "
                               \o Str(all[j].line) \o "\n"])

\* lines 88-101 of the tool
ToolOutput(all, kws, pats) ==
    IF all = <<>> THEN "No matches found for: " \o SearchTerms(kws, pats)
    ELSE "Found " \o ToString(Len(all)) \o " relevant memories:\n\n" \o ToolListing(all, 1)

\* lines 93-100 of the store
StoreOutput(all) ==
    IF all = <<>> THEN ""
    ELSE Join("\n", [i \in 1..Len(all) |->
                        "[" \o Str(all[i].file) \o "] " \o Str(all[i].line)])

\* the file-system calls of an enumeration and of a _grep_file call
EnumerationIO(dir) == IF dir.exists THEN <<"exists", "iterdir">> ELSE <<"exists">>
GrepIO(grep) == IF grep.opened THEN <<"open">> ELSE <<>>

LogEntry(f, grep) ==
    [file |-> f.name, patterns |-> grep.patterns, opened |-> grep.opened,
     tested |-> grep.tested]

(***************************************************************************)
(* State.                                                                  *)
(***************************************************************************)
\* the search
VARIABLES
    archive,        \* the memory directory: [exists, entries]
    keywords,       \* the arguments of the search
    regex_patterns,
    max_results,
    spc,            \* off | idle | tool_scan | tool_done | store_scan | store_done
                    \* | listed
    tFiles,         \* the tool: daily files not yet visited by the outer loop
    tAll,           \*           all_results
    tLog,           \*           the _grep_file calls made
    tOut,           \*           the returned text
    tIO,            \*           the file-system calls made
    tErr,           \*           the exception that left execute
    sFiles,         \* the store: the same
    sAll,
    sLog,
    sOut,
    sIO,
    sErr,
    listed          \* what list_memory_files returned

args == <<archive, keywords, regex_patterns, max_results>>
toolVars == <<tFiles, tAll, tLog, tOut, tIO, tErr>>
storeVars == <<sFiles, sAll, sLog, sOut, sIO, sErr>>
svars == <<args, spc, toolVars, storeVars, listed>>

\* the consolidator

(***************************************************************************)
(* The web search tool, src/nanobot/agent/tools/web.py: its state.         *)
(***************************************************************************)
VARIABLES config,             \* self.config of the WebSearchTool
          environ,            \* os.environ, "" for a variable that is not set
          provider_searchers, \* self._provider_searchers
          transport,          \* self._transport: what it answers to a request
          count,              \* the count argument of execute
          wpc,                \* "off", "idle" before execute, "done" after it
          invoked,            \* the searchers called, each with its n
          requests,           \* the HTTP requests handed to the transport
          wOut                \* the string execute returned

wvars == <<config, environ, provider_searchers, transport, count, wpc, invoked, requests, wOut>>

\* the web search is not under test
WebOff ==
    /\ config = <<>>
    /\ environ = <<>>
    /\ provider_searchers = <<>>
    /\ transport = <<>>
    /\ count = <<>>
    /\ wpc = "off"
    /\ invoked = <<>>
    /\ requests = <<>>
    /\ wOut = NONE
VARIABLES
    batch,          \* old_messages
    providerWidth,  \* most invocations the provider puts in one response
    pc,             \* idle | chat | tool | done | raised
    iteration,
    messages,       \* the transcript
    response,       \* response.tool_calls of the response being processed
    tcIndex,        \* position of the for loop over response.tool_calls
    result,         \* the returned string
    escaped,        \* text of an exception that reached the caller
    chatCalls,      \* provider.chat calls made
    emitted,        \* per provider response, the invocations it carried
    executed,       \* tools.execute calls made: [round, id, name]
    failure         \* what provider.chat or tools.execute raised, with the
                    \* counts at that moment

cvars == <<batch, providerWidth, pc, iteration, messages, response, tcIndex,
           result, escaped, chatCalls, emitted, executed, failure>>

\* nothing raised inside the loop
NoFailure == [reason |-> NONE, chatCalls |-> 0, executed |-> <<>>]

Exec(round, tc) == [round |-> round, id |-> tc.id, name |-> tc.name]

InitConsolidate(batches, width) ==
    /\ batch \in batches
    /\ providerWidth = width
    /\ pc = "idle"
    /\ iteration = 0
    /\ messages = <<>>
    /\ response = <<>>
    /\ tcIndex = 0
    /\ result = NONE
    /\ escaped = NONE
    /\ chatCalls = 0
    /\ emitted = <<>>
    /\ executed = <<>>
    /\ failure = NoFailure

\* lines 36-65: from the call to the first provider.chat
Start ==
    /\ pc = "idle"
    /\ IF IsEmptyBatch(batch)
       THEN /\ pc' = "done"
            /\ result' = MSG_EMPTY
            /\ UNCHANGED <<iteration, messages, chatCalls, escaped>>
       ELSE LET task == BuildTaskDescription(batch)
            IN  IF task.exc # NONE
                THEN /\ pc' = "raised"
                     /\ escaped' = task.exc
                     /\ UNCHANGED <<iteration, messages, chatCalls, result>>
                ELSE /\ messages' = <<SystemTurn, UserTurn(task.val)>>
                     /\ IF LoopContinues(0)
                        THEN /\ iteration' = 1
                             /\ chatCalls' = chatCalls + 1
                             /\ pc' = "chat"
                             /\ UNCHANGED result
                        ELSE /\ pc' = "done"
                             /\ result' = MSG_MAX
                             /\ UNCHANGED <<iteration, chatCalls>>
                     /\ UNCHANGED escaped
    /\ UNCHANGED <<batch, providerWidth, response, tcIndex, emitted, executed, failure>>
    /\ UNCHANGED <<svars, wvars>>

\* lines 62-65 after a round: back to the loop test
LoopBack ==
    IF LoopContinues(iteration)
    THEN /\ iteration' = iteration + 1
         /\ chatCalls' = chatCalls + 1
         /\ pc' = "chat"
         /\ UNCHANGED result
    ELSE /\ pc' = "done"
         /\ result' = MSG_MAX
         /\ UNCHANGED <<iteration, chatCalls>>

\* the budget tested before the invocations of the last response are executed
ChatReturnsCalls_BudgetFirst ==
    /\ pc = "chat"
    /\ \E n \in 1..providerWidth :
         LET calls == ProviderResponse(n)
         IN  /\ emitted' = Append(emitted, calls)
             /\ response' = calls
             /\ messages' = Append(messages, AssistantTurn(calls))
             /\ IF LoopContinues(iteration)
                THEN /\ tcIndex' = 1
                     /\ executed' = Append(executed, Exec(iteration, NextToolCall(calls, 1)))
                     /\ pc' = "tool"
                     /\ UNCHANGED result
                ELSE /\ pc' = "done"
                     /\ result' = MSG_MAX
                     /\ UNCHANGED <<tcIndex, executed>>
    /\ UNCHANGED <<batch, providerWidth, iteration, escaped, chatCalls, failure>>
    /\ UNCHANGED <<svars, wvars>>

\* the invocations of a response all started at once
ChatReturnsCalls_Gather ==
    /\ pc = "chat"
    /\ \E n \in 1..providerWidth :
         LET calls == ProviderResponse(n)
         IN  /\ emitted' = Append(emitted, calls)
             /\ response' = calls
             /\ messages' = Append(messages, AssistantTurn(calls))
             /\ tcIndex' = 1
             /\ executed' = executed \o [i \in 1..n |-> Exec(iteration, calls[i])]
             /\ pc' = "tool"
    /\ UNCHANGED <<batch, providerWidth, iteration, escaped, chatCalls, failure, result>>
    /\ UNCHANGED <<svars, wvars>>

\* lines 65-93: provider.chat returns a response with n >= 1 invocations
ChatReturnsCalls ==
    /\ pc = "chat"
    /\ \E n \in 1..providerWidth :
         LET calls == ProviderResponse(n)
         IN  /\ emitted' = Append(emitted, calls)
             /\ response' = calls
             /\ IF HasToolCalls(calls)
                THEN /\ messages' = Append(messages, AssistantTurn(calls))
                     /\ tcIndex' = 1
                     /\ executed' = Append(executed, Exec(iteration, NextToolCall(calls, 1)))
                     /\ pc' = "tool"
                     /\ UNCHANGED result
                ELSE /\ pc' = "done"
                     /\ result' = MSG_DONE
                     /\ UNCHANGED <<messages, tcIndex, executed>>
    /\ UNCHANGED <<batch, providerWidth, iteration, escaped, chatCalls, failure>>
    /\ UNCHANGED <<svars, wvars>>

\* lines 65-71, 100-103: provider.chat returns a response without invocations
ChatReturnsPlain ==
    /\ pc = "chat"
    /\ LET calls == ProviderResponse(0)
       IN  /\ emitted' = Append(emitted, calls)
           /\ response' = calls
           /\ IF HasToolCalls(calls)
              THEN /\ messages' = Append(messages, AssistantTurn(calls))
                   /\ LoopBack
              ELSE /\ pc' = "done"
                   /\ result' = MSG_DONE
                   /\ UNCHANGED <<messages, iteration, chatCalls>>
    /\ UNCHANGED <<batch, providerWidth, tcIndex, escaped, executed, failure>>
    /\ UNCHANGED <<svars, wvars>>

\* lines 106-108: the except clause
Fail(reason) ==
    /\ failure' = [reason |-> reason, chatCalls |-> chatCalls, executed |-> executed]
    /\ result' = FailureResult(reason)
    /\ pc' = "done"

\* lines 65, 106-108: provider.chat raises
ChatRaises ==
    /\ pc = "chat"
    /\ Fail("provider unavailable")
    /\ UNCHANGED <<batch, providerWidth, iteration, messages, response, tcIndex,
                   escaped, chatCalls, emitted, executed>>
    /\ UNCHANGED <<svars, wvars>>

\* the tool-result turn written over the last turn of the transcript
ToolReturns_Overwrite ==
    /\ pc = "tool"
    /\ messages' = [messages EXCEPT ![Len(messages)] =
                        ToolTurn(NextToolCall(response, tcIndex), "ok")]
    /\ IF tcIndex < Len(response)
       THEN /\ tcIndex' = tcIndex + 1
            /\ executed' = Append(executed, Exec(iteration, NextToolCall(response, tcIndex + 1)))
            /\ UNCHANGED <<pc, iteration, chatCalls, result>>
       ELSE /\ LoopBack
            /\ UNCHANGED <<tcIndex, executed>>
    /\ UNCHANGED <<batch, providerWidth, response, escaped, emitted, failure>>
    /\ UNCHANGED <<svars, wvars>>

\* lines 93-99 and the loop's next step: tools.execute returns
ToolReturns ==
    /\ pc = "tool"
    /\ messages' = Append(messages, ToolTurn(NextToolCall(response, tcIndex), "ok"))
    /\ IF tcIndex < Len(response)
       THEN /\ tcIndex' = tcIndex + 1
            /\ executed' = Append(executed, Exec(iteration, NextToolCall(response, tcIndex + 1)))
            /\ UNCHANGED <<pc, iteration, chatCalls, result>>
       ELSE /\ LoopBack
            /\ UNCHANGED <<tcIndex, executed>>
    /\ UNCHANGED <<batch, providerWidth, response, escaped, emitted, failure>>
    /\ UNCHANGED <<svars, wvars>>

\* lines 93, 106-108: tools.execute raises
ToolRaises ==
    /\ pc = "tool"
    /\ Fail("tool crashed")
    /\ UNCHANGED <<batch, providerWidth, iteration, messages, response, tcIndex,
                   escaped, chatCalls, emitted, executed>>
    /\ UNCHANGED <<svars, wvars>>

NextConsolidate ==
    \/ Start
    \/ ChatReturnsCalls
    \/ ChatReturnsPlain
    \/ ChatRaises
    \/ ToolReturns
    \/ ToolRaises


(***************************************************************************)
(* The search: the tool's execute, then the store's search_daily_memories  *)
(* on the same archive and arguments, then the store's list_memory_files.  *)
(***************************************************************************)
InitSearch(archives, kwArgs, patArgs, caps, start) ==
    /\ archive \in archives
    /\ keywords \in kwArgs
    /\ regex_patterns \in patArgs
    /\ max_results \in caps
    /\ spc = start
    /\ tFiles = <<>>
    /\ tAll = <<>>
    /\ tLog = <<>>
    /\ tOut = NONE
    /\ tIO = <<>>
    /\ tErr = NONE
    /\ sFiles = <<>>
    /\ sAll = <<>>
    /\ sLog = <<>>
    /\ sOut = NONE
    /\ sIO = <<>>
    /\ sErr = NONE
    /\ listed = <<>>

\* tool, lines 65-75: the query test and the enumeration
ToolBegin ==
    /\ spc = "idle"
    /\ IF IsEmptyQuery(keywords, regex_patterns)
       THEN /\ tOut' = MSG_NO_QUERY
            /\ spc' = "tool_done"
            /\ UNCHANGED <<tFiles, tIO, tErr>>
       ELSE IF IterdirRaises(archive)
       THEN /\ tErr' = NOT_A_DIRECTORY_ERROR
            /\ tIO' = EnumerationIO(archive)
            /\ spc' = "tool_done"
            /\ UNCHANGED <<tFiles, tOut>>
       ELSE LET daily_files == ToolDailyFiles(archive)
            IN  /\ tIO' = EnumerationIO(archive)
                /\ UNCHANGED tErr
                /\ IF daily_files = <<>>
                   THEN /\ tOut' = MSG_NO_FILES
                        /\ spc' = "tool_done"
                        /\ UNCHANGED tFiles
                   ELSE /\ tFiles' = daily_files
                        /\ spc' = "tool_scan"
                        /\ UNCHANGED tOut
    /\ UNCHANGED <<tAll, tLog>>
    /\ UNCHANGED <<args, storeVars, listed>>
    /\ UNCHANGED <<cvars, wvars>>

\* tool, lines 76-101: one turn of the outer loop and, when it ends, the text
ToolScanFile ==
    /\ spc = "tool_scan"
    /\ LET file_path == Head(tFiles)
           grep == ToolGrepFile(file_path, OrEmpty(keywords), regex_patterns)
           all == AppendResults(tAll, file_path.name, grep.results, max_results)
       IN  IF grep.exc # NONE
           THEN /\ tErr' = grep.exc
                /\ spc' = "tool_done"
                /\ UNCHANGED <<tFiles, tAll, tLog, tOut, tIO>>
           ELSE /\ tAll' = all
                /\ tLog' = Append(tLog, LogEntry(file_path, grep))
                /\ tIO' = tIO \o GrepIO(grep)
                /\ tFiles' = Tail(tFiles)
                /\ UNCHANGED tErr
                /\ IF CapReached(all, max_results) \/ Tail(tFiles) = <<>>
                   THEN /\ tOut' = ToolOutput(all, keywords, regex_patterns)
                        /\ spc' = "tool_done"
                   ELSE UNCHANGED <<tOut, spc>>
    /\ UNCHANGED <<args, storeVars, listed>>
    /\ UNCHANGED <<cvars, wvars>>

\* store, lines 72-79
StoreBegin ==
    /\ spc = "tool_done"
    /\ IF IsEmptyQuery(keywords, regex_patterns)
       THEN /\ sOut' = ""
            /\ spc' = "store_done"
            /\ UNCHANGED <<sFiles, sIO, sErr>>
       ELSE IF IterdirRaises(archive)
       THEN /\ sErr' = NOT_A_DIRECTORY_ERROR
            /\ sIO' = EnumerationIO(archive)
            /\ spc' = "store_done"
            /\ UNCHANGED <<sFiles, sOut>>
       ELSE LET daily_files == StoreDailyFiles(archive)
            IN  /\ sIO' = EnumerationIO(archive)
                /\ UNCHANGED sErr
                /\ IF daily_files = <<>>
                   THEN /\ sOut' = ""
                        /\ spc' = "store_done"
                        /\ UNCHANGED sFiles
                   ELSE /\ sFiles' = daily_files
                        /\ spc' = "store_scan"
                        /\ UNCHANGED sOut
    /\ UNCHANGED <<sAll, sLog>>
    /\ UNCHANGED <<args, toolVars, listed>>
    /\ UNCHANGED <<cvars, wvars>>

\* store, lines 80-100
StoreScanFile ==
    /\ spc = "store_scan"
    /\ LET file_path == Head(sFiles)
           grep == StoreGrepFile(file_path, OrEmpty(keywords), regex_patterns)
           all == AppendResults(sAll, file_path.name, grep.results, max_results)
       IN  IF grep.exc # NONE
           THEN /\ sErr' = grep.exc
                /\ spc' = "store_done"
                /\ UNCHANGED <<sFiles, sAll, sLog, sOut, sIO>>
           ELSE /\ sAll' = all
                /\ sLog' = Append(sLog, LogEntry(file_path, grep))
                /\ sIO' = sIO \o GrepIO(grep)
                /\ sFiles' = Tail(sFiles)
                /\ UNCHANGED sErr
                /\ IF CapReached(all, max_results) \/ Tail(sFiles) = <<>>
                   THEN /\ sOut' = StoreOutput(all)
                        /\ spc' = "store_done"
                   ELSE UNCHANGED <<sOut, spc>>
    /\ UNCHANGED <<args, toolVars, listed>>
    /\ UNCHANGED <<cvars, wvars>>

\* store, lines 38-43: list_memory_files
StoreListFiles ==
    /\ spc = "store_done"
    /\ listed' = ListMemoryFiles(archive)
    /\ spc' = "listed"
    /\ UNCHANGED <<args, toolVars, storeVars>>
    /\ UNCHANGED <<cvars, wvars>>

NextSearch ==
    \/ ToolBegin
    \/ ToolScanFile
    \/ StoreBegin
    \/ StoreScanFile
    \/ StoreListFiles

(***************************************************************************)
(* Specifications.                                                         *)
(***************************************************************************)
vars == <<cvars, svars, wvars>>

\* the search is not under test
SearchOff == InitSearch({NoDirectory}, {Absent}, {Absent}, {10}, "off")
\* the consolidator is not under test
ConsolidateOff == InitConsolidate({<<>>}, 0)

\* batches the task building accepts, any provider
LoopBatches == {<<>>, PlainBatch, <<Turn(MISSING, "hi", TS_MISSING)>>}

InitLoop == InitConsolidate(LoopBatches, MaxToolCalls) /\ SearchOff /\ WebOff
SpecLoop == InitLoop /\ [][NextConsolidate]_vars

\* any batch, a provider of one invocation per response
InitTask == InitConsolidate(Batches, 1) /\ SearchOff /\ WebOff
SpecTask == InitTask /\ [][NextConsolidate]_vars

\* --- archives of two daily files among entries the enumeration skips ---
\* most lines of a daily file
MaxLines == 2
\* largest max_results tried
MaxK == 2

LINE_C == <<"c", " ">>
LINE_11 == <<"1", "1">>
LinePool == {LINE_C, LINE_11}
Contents == SeqsUpTo(LinePool, MaxLines)

\* the ways reading a file of these lines goes
ReadOutcomes(lines) == {NeverFails} \cup (0..(Len(lines) - 1))

\* entries neither search may visit
SkippedEntries ==
    {Entry(NAME_MEMORY, TRUE, <<LINE_C, LINE_11>>, NeverFails),
     Entry(NAME_SHORT, TRUE, <<LINE_C, LINE_11>>, NeverFails),
     Entry(NAME_0103, FALSE, <<>>, NeverFails)}

\* at most one file fails to read
Archives ==
    {NoDirectory, Directory({}), Directory(SkippedEntries)}
    \cup {Directory(SkippedEntries \cup {Entry(NAME_0101, TRUE, old, NeverFails)}) :
            old \in Contents}
    \cup {Directory(SkippedEntries \cup {Entry(NAME_0101, TRUE, old, NeverFails),
                                         Entry(NAME_0102, TRUE, new, fail)}) :
            old \in Contents, new \in Contents, fail \in 0..MaxLines}
    \cup {Directory(SkippedEntries \cup {Entry(NAME_0101, TRUE, old, fail),
                                         Entry(NAME_0102, TRUE, new, NeverFails)}) :
            old \in Contents, new \in Contents, fail \in (0 - 1)..MaxLines}

WellFormed(dir) ==
    \A f \in dir.entries : f.failAfter \in ReadOutcomes(f.lines)

RE_SAFE == Pattern(<<"1", "+">>, 0)
RE_NESTED == Pattern(<<"(", "1", "+", ")", "+">>, 0)
RE_INVALID == Pattern(<<"(", "1">>, 0)

KeywordArgs == {Absent, Given(<<>>), Given(<<<<"C">>>>)}
PatternArgs == {Absent, Given(<<>>), Given(<<RE_SAFE>>), Given(<<RE_NESTED>>),
                Given(<<RE_INVALID, RE_SAFE>>)}

InitArchive ==
    /\ InitSearch({a \in Archives : WellFormed(a)}, KeywordArgs, PatternArgs,
                  0..MaxK, "idle")
    /\ ConsolidateOff
    /\ WebOff
SpecSearch == InitArchive /\ [][NextSearch]_vars

\* --- one file of one line, one regex pattern of every shape ---
\* longest pattern body enumerated
MaxPatternBody == 4

PatternAlphabet == {"(", ")", "+", "*", "{", "1"}

\* bodies longer than the enumeration reaches
SeedBodies ==
    {<<"(", "1", "+", ")", "+">>,
     <<"(", "1", "*", ")", "*">>,
     <<"(", "1", "*", ")", "+">>,
     <<"(", "1", "+", ")", "*">>,
     <<"(", "(", ")", "+", ")", "+">>,
     <<"(", "(", "1", "+", ")", ")", "+">>,
     <<"(", "(", "1", "*", ")", ")", "*">>,
     <<"(", "1", "+", "(", ")", "+", ")">>,
     <<"(", "1", "*", ")", "(", "1", ")", "*">>,
     <<"{", "1", "1", "1">>,
     <<"1", "{", "1", "1", "1", "1">>}

\* bodies padded to the length limit and to one more
LongPatterns ==
    {Pattern(b, MaxPatternLength - Len(b)) : b \in {<<"1">>, <<"1", "+">>, <<"(", "1">>}}
    \cup {Pattern(b, MaxPatternLength + 1 - Len(b)) :
            b \in {<<"1">>, <<"1", "+">>, <<"(", "1", "+", ")", "+">>}}

Patterns ==
    {Pattern(b, 0) : b \in SeqsUpTo(PatternAlphabet, MaxPatternBody) \cup SeedBodies}
    \cup LongPatterns

RegexLines == {<<"1", "1">>, <<"{", "1", "1", "1">>, <<"(", "a", " ">>}

InitRegex ==
    /\ InitSearch({Directory({Entry(NAME_0101, TRUE, <<line>>, NeverFails)}) :
                        line \in RegexLines},
                  {Absent}, {Given(<<p>>) : p \in Patterns}, {10}, "idle")
    /\ ConsolidateOff
    /\ WebOff
SpecRegex == InitRegex /\ [][NextSearch]_vars

\* --- one file of one line, one keyword ---
\* longest line enumerated
MaxLineLen == 4
\* longest keyword enumerated
MaxKeywordLen == 3

KeywordAlphabet == {"c", "C", "+"}
LineAlphabet == {"c", "C", "+", " "}

KeywordPool == SeqsUpTo(KeywordAlphabet, MaxKeywordLen) \ {<<>>}
KeywordLines == SeqsUpTo(LineAlphabet, MaxLineLen)

InitKeyword ==
    /\ InitSearch({Directory({Entry(NAME_0101, TRUE, <<line>>, NeverFails)}) :
                        line \in KeywordLines},
                  {Given(<<kw>>) : kw \in KeywordPool}, {Absent}, {10}, "idle")
    /\ ConsolidateOff
    /\ WebOff
SpecKeyword == InitKeyword /\ [][NextSearch]_vars


\* every provider call and every tool execution returns or raises
SpecLoopFair == SpecLoop /\ WF_vars(NextConsolidate)
SpecTaskFair == SpecTask /\ WF_vars(NextConsolidate)
\* --- files of many matching lines, caps around the declared range ---
\* "default": 10 of the max_results parameter
DefaultMaxResults == 10
\* "minimum": 1 and "maximum": 50 of the max_results parameter
MinMaxResults == 1
MaxMaxResults == 50

\* the max_results argument: omitted, or an integer
Omitted == [given |-> FALSE, value |-> 0]
Passed(k) == [given |-> TRUE, value |-> k]

\* the value of the max_results parameter inside execute
MaxResultsParam(arg) == IF arg.given THEN arg.value ELSE DefaultMaxResults

\* a file of n lines, each matched by RE_SAFE
ManyLines(n) == [i \in 1..n |-> IF i % 2 = 1 THEN LINE_11 ELSE <<"1">>]

\* line counts below, at and above the declared maximum
FileSizes == {0, 1, 2, MaxMaxResults - 1, MaxMaxResults, MaxMaxResults + 1}

CapArgs ==
    {Omitted} \cup {Passed(k) : k \in {0 - 1, 0, 1, 2, MaxMaxResults - 1, MaxMaxResults,
                                       MaxMaxResults + 1, MaxMaxResults + 2}}

InitCap ==
    /\ InitSearch({Directory({Entry(NAME_0101, TRUE, ManyLines(old), NeverFails),
                              Entry(NAME_0102, TRUE, ManyLines(new), NeverFails)}) :
                        old \in FileSizes, new \in FileSizes},
                  {Absent}, {Given(<<RE_SAFE>>)},
                  {MaxResultsParam(arg) : arg \in CapArgs}, "idle")
    /\ ConsolidateOff
    /\ WebOff
SpecCap == InitCap /\ [][NextSearch]_vars

\* --- archives and arguments the search has to cope with ---
RobustArchives ==
    {NoDirectory, NotADirectory, Directory({}), Directory(SkippedEntries)}
    \cup {Directory(SkippedEntries \cup {Entry(NAME_0101, TRUE, lines, fail)}) :
            lines \in Contents, fail \in (0 - 1)..MaxLines}

RobustKeywordArgs ==
    {Absent, Given(<<>>), Given(<<<<"C">>>>), Given(<<NotAStr>>),
     Given(<<<<"C">>, NotAStr>>)}

RobustPatternArgs ==
    {Absent, Given(<<RE_SAFE>>), Given(<<RE_NESTED>>), Given(<<RE_INVALID>>),
     Given(<<NotAStrPattern>>), Given(<<RE_SAFE, NotAStrPattern>>)}

InitRobust ==
    /\ InitSearch({a \in RobustArchives : WellFormed(a)}, RobustKeywordArgs,
                  RobustPatternArgs, {1, DefaultMaxResults}, "idle")
    /\ ConsolidateOff
    /\ WebOff
SpecRobust == InitRobust /\ [][NextSearch]_vars

\* --- directories holding any of seven entries ---
\* a name of the shape ????-??-??.md without digits
NAME_LETTERS == <<"M", "E", "M", "O", "-", "R", "Y", "-", "d", "d", ".", "m", "d">>
\* a date name followed by a newline
NAME_NEWLINE == <<"2", "0", "2", "4", "-", "0", "1", "-", "0", "4", ".", "m", "d", "\n">>

ListingEntries ==
    {Entry(NAME_0101, TRUE, <<LINE_C>>, NeverFails),
     Entry(NAME_0102, TRUE, <<LINE_11>>, NeverFails),
     Entry(NAME_0103, FALSE, <<>>, NeverFails),
     Entry(NAME_MEMORY, TRUE, <<LINE_C>>, NeverFails),
     Entry(NAME_SHORT, TRUE, <<LINE_C>>, NeverFails),
     Entry(NAME_LETTERS, TRUE, <<LINE_C>>, NeverFails),
     Entry(NAME_NEWLINE, TRUE, <<LINE_C>>, NeverFails)}

InitListing ==
    /\ InitSearch({NoDirectory} \cup {Directory(es) : es \in SUBSET ListingEntries},
                  {Given(<<<<"C">>>>)}, {Absent}, {DefaultMaxResults}, "idle")
    /\ ConsolidateOff
    /\ WebOff
SpecListing == InitListing /\ [][NextSearch]_vars


(***************************************************************************)
(* The web search tool: text helpers and the searchers of each provider.   *)
(***************************************************************************)
\* s.startswith(prefix)
StartsWith(s, prefix) ==
    Len(s) >= Len(prefix) /\ SubSeq(s, 1, Len(prefix)) = prefix

\* str.strip()
RECURSIVE StrStrip(_)
StrStrip(s) ==
    IF s = "" THEN s
    ELSE IF IsSpace(SubSeq(s, 1, 1)) THEN StrStrip(SubSeq(s, 2, Len(s)))
    ELSE IF IsSpace(SubSeq(s, Len(s), Len(s))) THEN StrStrip(SubSeq(s, 1, Len(s) - 1))
    ELSE s

UPPERCASE == "ABCDEFGHIJKLMNOPQRSTUVWXYZ"
LOWERCASE == "abcdefghijklmnopqrstuvwxyz"

\* str.lower()
RECURSIVE StrLower(_)
StrLower(s) ==
    IF s = "" THEN s
    ELSE LET ch == SubSeq(s, 1, 1)
             at == {i \in 1..Len(UPPERCASE) : SubSeq(UPPERCASE, i, i) = ch}
             lo == IF at = {} THEN ch
                   ELSE LET i == CHOOSE j \in at : TRUE IN SubSeq(LOWERCASE, i, i)
         IN  lo \o StrLower(SubSeq(s, 2, Len(s)))

\* base_url.rstrip('/')
RECURSIVE RStripSlash(_)
RStripSlash(s) ==
    IF s # "" /\ SubSeq(s, Len(s), Len(s)) = "/"
    THEN RStripSlash(SubSeq(s, 1, Len(s) - 1))
    ELSE s

\* re.sub(r'<[^>]+>', '', text) followed by .strip(); the texts served here
\* hold no script or style element and no character entity
RECURSIVE DropTags(_)
DropTags(s) ==
    IF s = "" THEN s
    ELSE IF SubSeq(s, 1, 1) # "<" THEN SubSeq(s, 1, 1) \o DropTags(SubSeq(s, 2, Len(s)))
    ELSE LET closes == {j \in 2..Len(s) : SubSeq(s, j, j) = ">"}
             j == CHOOSE k \in closes : \A l \in closes : k <= l
         IN  IF closes = {} \/ j = 2
             THEN "<" \o DropTags(SubSeq(s, 2, Len(s)))
             ELSE DropTags(SubSeq(s, j + 1, Len(s)))

StripTags(text) == StrStrip(DropTags(text))

\* re.sub(r'[ \t]+', ' ', text)
RECURSIVE SqueezeBlanks(_)
SqueezeBlanks(s) ==
    IF s = "" THEN s
    ELSE LET ch == SubSeq(s, 1, 1)
             rest == SubSeq(s, 2, Len(s))
         IN  IF ch \in {" ", "\t"}
             THEN IF rest # "" /\ SubSeq(rest, 1, 1) \in {" ", "\t"}
                  THEN SqueezeBlanks(rest)
                  ELSE " " \o SqueezeBlanks(rest)
             ELSE ch \o SqueezeBlanks(rest)

\* _normalize; the texts served here hold no run of three newlines
Normalize(text) == StrStrip(SqueezeBlanks(text))

\* a or b, of two strings
OrStr(a, b) == IF a # "" THEN a ELSE b

BraveApiKey(cfg, env) == OrStr(cfg.api_key, env.BRAVE_API_KEY)
TavilyApiKey(cfg, env) == OrStr(cfg.tavily_api_key, env.TAVILY_API_KEY)
SearxngBaseUrl(cfg, env) == OrStr(cfg.searxng_base_url, env.SEARXNG_BASE_URL)

\* (self.config.provider or "brave").strip().lower()
ProviderName(cfg) == StrLower(StrStrip(OrStr(cfg.provider, "brave")))

\* count or self.config.max_results, as it comes
ClampCount_Unclamped(arg, cfg) ==
    IF arg.given /\ arg.value # 0 THEN arg.value ELSE cfg.max_results

\* min(max(count or self.config.max_results, 1), 10)
ClampCount(arg, cfg) ==
    LET wanted == IF arg.given /\ arg.value # 0 THEN arg.value ELSE cfg.max_results
        atLeast == IF wanted >= 1 THEN wanted ELSE 1
    IN  Min(atLeast, 10)

\* the map __init__ builds
DefaultSearchers ==
    [name \in {"duckduckgo", "tavily", "searxng", "brave"} |->
        CASE name = "duckduckgo" -> "_search_duckduckgo"
          [] name = "tavily" -> "_execute_tavily_provider"
          [] name = "searxng" -> "_search_searxng"
          [] name = "brave" -> "_execute_brave_provider"]

\* the searcher that ignores the map the call finds
SelectSearcher_AtConstruction(searchers, provider) ==
    IF provider \in DOMAIN DefaultSearchers THEN DefaultSearchers[provider]
    ELSE DefaultSearchers["brave"]

\* self._provider_searchers.get(provider, self._provider_searchers["brave"])
SelectSearcher(searchers, provider) ==
    IF provider \in DOMAIN searchers THEN searchers[provider] ELSE searchers["brave"]

\* what the transport answers: a page of results, each with a title and a
\* url, the descriptions found in it, or an exception of a given text
Served(items, texts) == [ok |-> TRUE, items |-> items, texts |-> texts, error |-> ""]
Failed(text) == [ok |-> FALSE, items |-> <<>>, texts |-> <<>>, error |-> text]

Request(method, url, key) == [method |-> method, url |-> url, key |-> key]

\* what a searcher did: the string it returned and the requests it sent
Searched(out, sent) == [out |-> out, requests |-> sent]

\* "\n".join(lines) of a listing, lines[1] being the heading
RECURSIVE JoinListing(_)
JoinListing(lines) ==
    IF Len(lines) = 1 THEN lines[1]
    ELSE lines[1] \o "\n" \o JoinListing(Tail(lines))

\* the lines of results[:n]: "i. title\n   url" and the description, if any
RECURSIVE ItemLines(_, _, _, _, _)
ItemLines(items, texts, n, i, clean) ==
    IF i > Len(items) \/ i > n THEN <<>>
    ELSE LET title == IF clean THEN Normalize(StripTags(items[i].title)) ELSE items[i].title
             text == IF i > Len(texts) THEN ""
                     ELSE IF clean THEN Normalize(StripTags(texts[i])) ELSE texts[i]
             head == ToString(i) \o ". " \o title \o "\n   " \o items[i].url
         IN  (IF text # "" THEN <<head, "   " \o text>> ELSE <<head>>)
             \o ItemLines(items, texts, n, i + 1, clean)

\* the return value of a searcher whose request was answered by reply
Listing(query, n, reply, clean) ==
    IF ~reply.ok THEN "Error: " \o reply.error
    ELSE IF reply.items = <<>> THEN "No results for: " \o query
    ELSE JoinListing(<<"Results for: " \o query \o "\n">>
                     \o ItemLines(reply.items, reply.texts, n, 1, clean))

\* brave asked without a look at the key
SearchBrave_Unchecked(cfg, env, query, n, reply) ==
    Searched(Listing(query, n, reply, FALSE),
             <<Request("GET", "https://api.search.brave.com/res/v1/web/search",
                       BraveApiKey(cfg, env))>>)

SearchBrave(cfg, env, query, n, reply) ==
    LET api_key == BraveApiKey(cfg, env)
    IN  IF api_key = "" THEN Searched("Error: BRAVE_API_KEY not configured", <<>>)
        ELSE Searched(Listing(query, n, reply, FALSE),
                      <<Request("GET", "https://api.search.brave.com/res/v1/web/search", api_key)>>)

SearchTavily(cfg, env, query, n, reply) ==
    LET api_key == TavilyApiKey(cfg, env)
    IN  IF api_key = "" THEN Searched("Error: TAVILY_API_KEY not configured", <<>>)
        ELSE Searched(Listing(query, n, reply, TRUE),
                      <<Request("POST", "https://api.tavily.com/search", api_key)>>)

SearchDuckduckgo(query, n, reply) ==
    Searched(Listing(query, n, reply, TRUE),
             <<Request("GET", "https://html.duckduckgo.com/html/", "")>>)

SearchSearxng(cfg, env, query, n, reply) ==
    LET base_url == StrStrip(SearxngBaseUrl(cfg, env))
    IN  IF base_url = "" THEN Searched("Error: SEARXNG_BASE_URL not configured", <<>>)
        ELSE Searched(Listing(query, n, reply, TRUE),
                      <<Request("GET", RStripSlash(base_url) \o "/search", "")>>)

\* the fallback without its notice
FallbackToDuckduckgo_Unannounced(missing_key, query, n, reply) ==
    SearchDuckduckgo(query, n, reply)

FallbackToDuckduckgo(missing_key, query, n, reply) ==
    LET ddg == SearchDuckduckgo(query, n, reply)
    IN  IF StartsWith(ddg.out, "Error:") THEN ddg
        ELSE Searched("Using DuckDuckGo fallback (" \o missing_key \o " missing).\n\n" \o ddg.out,
                      ddg.requests)

ExecuteBraveProvider(cfg, env, query, n, reply) ==
    IF BraveApiKey(cfg, env) = "" /\ cfg.fallback_to_duckduckgo_on_missing_key
    THEN FallbackToDuckduckgo("BRAVE_API_KEY", query, n, reply)
    ELSE SearchBrave(cfg, env, query, n, reply)

ExecuteTavilyProvider(cfg, env, query, n, reply) ==
    IF TavilyApiKey(cfg, env) = "" /\ cfg.fallback_to_duckduckgo_on_missing_key
    THEN FallbackToDuckduckgo("TAVILY_API_KEY", query, n, reply)
    ELSE SearchTavily(cfg, env, query, n, reply)

\* a searcher registered by the caller: f"custom:{query}:{n}"
CustomProvider(query, n) ==
    Searched("custom:" \o query \o ":" \o ToString(n), <<>>)

\* await search(query, n)
CallSearcher(search, cfg, env, query, n, reply) ==
    CASE search = "_custom_provider" -> CustomProvider(query, n)
      [] search = "_search_duckduckgo" -> SearchDuckduckgo(query, n, reply)
      [] search = "_execute_tavily_provider" -> ExecuteTavilyProvider(cfg, env, query, n, reply)
      [] search = "_search_searxng" -> SearchSearxng(cfg, env, query, n, reply)
      [] search = "_execute_brave_provider" -> ExecuteBraveProvider(cfg, env, query, n, reply)

(***************************************************************************)
(* WebSearchTool.execute                                                   *)
(***************************************************************************)
\* the query of every call
QUERY == "nanobot"

InitWeb(configs, environs, replies, counts) ==
    /\ config \in configs
    /\ environ \in environs
    /\ provider_searchers = DefaultSearchers
    /\ transport \in replies
    /\ count \in counts
    /\ wpc = "idle"
    /\ invoked = <<>>
    /\ requests = <<>>
    /\ wOut = NONE

\* tool._provider_searchers[name] = searcher, by the owner of the tool
RegisterSearcher(names, searcher) ==
    /\ wpc = "idle"
    /\ \E name \in names :
          /\ IF name \in DOMAIN provider_searchers
             THEN provider_searchers[name] # searcher
             ELSE TRUE
          /\ provider_searchers' =
                [key \in DOMAIN provider_searchers \cup {name} |->
                    IF key = name THEN searcher ELSE provider_searchers[key]]
    /\ UNCHANGED <<config, environ, transport, count, wpc, invoked, requests, wOut>>
    /\ UNCHANGED <<cvars, svars>>

\* execute(query, count): one call, the transport answering its request
WebExecute ==
    /\ wpc = "idle"
    /\ LET provider == ProviderName(config)
           n == ClampCount(count, config)
           search == SelectSearcher(provider_searchers, provider)
           done == CallSearcher(search, config, environ, QUERY, n, transport)
       IN  /\ invoked' = Append(invoked, [searcher |-> search, query |-> QUERY, n |-> n])
           /\ requests' = requests \o done.requests
           /\ wOut' = done.out
    /\ wpc' = "done"
    /\ UNCHANGED <<config, environ, provider_searchers, transport, count>>
    /\ UNCHANGED <<cvars, svars>>

\* --- one call of web_search under every provider and key setting ---
\* most results a provider serves
MaxItems == 2

Item(title, url) == [title |-> title, url |-> url]
ITEM_A == Item("<b>Nano</b>  bot", "https://a.example")
ITEM_B == Item("Error: 404", "https://b.example")
ServedItems == [i \in 1..MaxItems |-> IF i % 2 = 1 THEN ITEM_A ELSE ITEM_B]
ServedTexts == [i \in 1..MaxItems |-> IF i % 2 = 1 THEN "" ELSE "a <i>tiny</i> agent"]

\* pages of 0..MaxItems results with none, some or all of their descriptions,
\* and a request that raises
Replies ==
    {Served(SubSeq(ServedItems, 1, k), SubSeq(ServedTexts, 1, t)) :
        k \in 0..MaxItems, t \in 0..MaxItems}
    \cup {Failed("timed out")}

ProviderNames == {"", "brave", " Tavily ", "searxng", "DuckDuckGo", "bing"}
KeyValues == {"", "k1"}
BaseUrls == {"", " ", "https://searx.cfg/"}

WebConfigs ==
    [provider : ProviderNames, api_key : KeyValues, tavily_api_key : KeyValues,
     searxng_base_url : BaseUrls,
     fallback_to_duckduckgo_on_missing_key : BOOLEAN, max_results : {5}]
Environs ==
    [BRAVE_API_KEY : {"", "e1"}, TAVILY_API_KEY : {"", "e2"},
     SEARXNG_BASE_URL : {"", "https://searx.env"}]

InitWebSearch ==
    /\ InitWeb(WebConfigs, Environs, Replies, {Omitted, Passed(1)})
    /\ ConsolidateOff
    /\ SearchOff

NextWeb == WebExecute

SpecWeb == InitWebSearch /\ [][NextWeb]_vars

\* --- dispatch and count: every provider name, count and max_results, keys
\* --- and base URL set, searchers registered before the call ---
DispatchNames == {"", "brave", " Tavily ", "searxng", "DuckDuckGo", "Custom ", "bing"}
RegisteredNames == {"custom", "duckduckgo"}
Counts == {Omitted, Passed(0), Passed(1), Passed(2), Passed(11), Passed(0 - 1)}
MaxResultsValues == {0, 5, 12}

DispatchConfigs ==
    [provider : DispatchNames, api_key : {"k1"}, tavily_api_key : {"k1"},
     searxng_base_url : {"https://searx.cfg/"},
     fallback_to_duckduckgo_on_missing_key : {FALSE}, max_results : MaxResultsValues]

\* a page of more results than any count lets through
LongPage == Served([i \in 1..11 |-> IF i % 2 = 1 THEN ITEM_A ELSE ITEM_B], <<>>)

InitDispatch ==
    /\ InitWeb(DispatchConfigs,
               {[BRAVE_API_KEY |-> "", TAVILY_API_KEY |-> "", SEARXNG_BASE_URL |-> ""]},
               Replies \cup {LongPage}, Counts)
    /\ ConsolidateOff
    /\ SearchOff

NextDispatch ==
    \/ RegisterSearcher(RegisteredNames, "_custom_provider")
    \/ WebExecute

SpecDispatch == InitDispatch /\ [][NextDispatch]_vars
(***************************************************************************)
(* Properties of MemoryConsolidator.consolidate.                           *)
(***************************************************************************)
\* 1-based index of the first provider response without invocations, 0 if none
FirstPlain ==
    IF \E j \in 1..Len(emitted) : emitted[j] = <<>>
    THEN CHOOSE j \in 1..Len(emitted) :
            /\ emitted[j] = <<>>
            /\ \A q \in 1..(j - 1) : emitted[q] # <<>>
    ELSE 0

\* C1: on a non-empty batch, with no raise, consolidate makes min(10, j)
\* provider.chat calls, j the index of the first response without invocations
\* (10 when there is none), and returns the success message when j <= 10 and
\* the max-iterations message otherwise.
C1_ProviderCallCount ==
    (pc = "done" /\ batch # <<>> /\ failure.reason = NONE) =>
        /\ chatCalls = Len(emitted)
        /\ chatCalls = (IF FirstPlain = 0 THEN 10 ELSE Min(10, FirstPlain))
        /\ result = (IF FirstPlain # 0 /\ FirstPlain <= 10
                     THEN "Memory consolidation completed"
                     ELSE "Memory consolidation completed (max iterations reached)")

C1_Witness ==
    /\ pc = "done"
    /\ failure.reason = NONE
    /\ chatCalls = 10
    /\ FirstPlain = 0
    /\ result = "Memory consolidation completed (max iterations reached)"

\* C2: no exception reaches the caller of consolidate, whatever the batch,
\* the provider and the tools do; every path returns a string.
C2_NeverPropagates ==
    /\ pc # "raised"
    /\ escaped = NONE
    /\ pc = "done" => result # NONE

\* where round r's assistant turn sits in the transcript
RECURSIVE RoundBase(_)
RoundBase(r) ==
    IF r = 1 THEN 3 ELSE RoundBase(r - 1) + 1 + Len(emitted[r - 1])

\* the tools.execute calls of round r, in the order they were made
ExecutedIn(r) == SelectSeq(executed, LAMBDA e : e.round = r)

\* the tool-result turns appended for round r so far
ResultTurnsOf(r) ==
    IF r < Len(emitted)
    THEN Len(emitted[r])
    ELSE Len(messages) - RoundBase(r)

\* C3: the invocations t1..tn of one response are executed in the order the
\* provider emitted them, and the tool-result turns appended to the transcript
\* are in that order, the i-th carrying ti's identifier and tool name.
C3_InvocationOrder ==
    \A r \in 1..Len(emitted) :
        emitted[r] # <<>> =>
            /\ Len(ExecutedIn(r)) <= Len(emitted[r])
            /\ \A i \in 1..Len(ExecutedIn(r)) :
                  /\ ExecutedIn(r)[i].id = emitted[r][i].id
                  /\ ExecutedIn(r)[i].name = emitted[r][i].name
            /\ ResultTurnsOf(r) <= Len(ExecutedIn(r))
            /\ Len(ExecutedIn(r)) <= ResultTurnsOf(r) + 1
            /\ (failure.reason = NONE /\ (r < Len(emitted) \/ pc # "tool")) =>
                  ResultTurnsOf(r) = Len(emitted[r])
            /\ messages[RoundBase(r)].role = "assistant"
            /\ \A i \in 1..ResultTurnsOf(r) :
                  /\ messages[RoundBase(r) + i].role = "tool"
                  /\ messages[RoundBase(r) + i].tool_call_id = emitted[r][i].id
                  /\ messages[RoundBase(r) + i].name = emitted[r][i].name

C3_Witness ==
    /\ pc = "chat"
    /\ Len(emitted) = 2
    /\ Len(emitted[2]) = 2
    /\ Len(ExecutedIn(2)) = 2
    /\ ResultTurnsOf(2) = 2

\* C4: on an empty batch consolidate returns "No messages to consolidate" and
\* makes no provider call, executes no tool and builds no transcript.
C4_EmptyBatch ==
    (batch = <<>> /\ pc # "idle") =>
        /\ pc = "done"
        /\ result = "No messages to consolidate"
        /\ chatCalls = 0
        /\ emitted = <<>>
        /\ executed = <<>>
        /\ messages = <<>>

C4_Witness == batch = <<>> /\ pc = "done" /\ result = "No messages to consolidate"

\* C5: when provider.chat or a tool execution raises inside the loop,
\* consolidate returns "Memory consolidation failed: <reason>" with the text
\* of the exception, and makes no provider call and no tool invocation after
\* the raise.
C5_FailureIsTerminal ==
    failure.reason # NONE =>
        /\ pc = "done"
        /\ result = "Memory consolidation failed: " \o failure.reason
        /\ chatCalls = failure.chatCalls
        /\ executed = failure.executed

C5_Witness ==
    /\ failure.reason # NONE
    /\ failure.reason = "tool crashed"
    /\ Len(executed) >= 3
    /\ result = "Memory consolidation failed: tool crashed"
(***************************************************************************)
(* Properties of the search: MemorySearchTool.execute and                  *)
(* MemoryStore.search_daily_memories.                                      *)
(***************************************************************************)
\* the tool has returned
ToolDone == spc \in {"tool_done", "store_scan", "store_done", "listed"} /\ tErr = NONE
\* the store has returned
StoreDone == spc \in {"store_done", "listed"} /\ sErr = NONE

\* the (file, line) pairs of the given lines of one file
Pairs(name, lines) == [i \in 1..Len(lines) |-> [file |-> name, line |-> lines[i]]]

\* every matching line of the archive as the tool's grep finds them, newest
\* file first and top to bottom within a file
RECURSIVE ToolMatchesIn(_)
ToolMatchesIn(files) ==
    IF files = <<>> THEN <<>>
    ELSE Pairs(Head(files).name,
               ToolGrepFile(Head(files), OrEmpty(keywords), regex_patterns).results)
             \o ToolMatchesIn(Tail(files))

\* the same as the store's grep finds them
RECURSIVE StoreMatchesIn(_)
StoreMatchesIn(files) ==
    IF files = <<>> THEN <<>>
    ELSE Pairs(Head(files).name,
               StoreGrepFile(Head(files), OrEmpty(keywords), regex_patterns).results)
             \o StoreMatchesIn(Tail(files))

\* the first min(k, len) elements of matches
FirstK(matches, k) == SubSeq(matches, 1, Min(k, Len(matches)))

\* C6: for any archive and any max_results = k, the results each search
\* selects are min(k, total matching lines) many and are exactly the first k
\* matching lines, newest file first and top to bottom within a file.
C6_ResultCapLaw ==
    /\ ToolDone => tAll = FirstK(ToolMatchesIn(ToolDailyFiles(archive)), max_results)
    /\ StoreDone => sAll = FirstK(StoreMatchesIn(StoreDailyFiles(archive)), max_results)

\* every regex pattern a logged _grep_file call compiled passes the validator
OnlyValidated(log) ==
    \A i \in 1..Len(log) : \A j \in 1..Len(log[i].patterns) :
        log[i].patterns[j].kind = "re" => ValidateRegex(log[i].patterns[j].pat)

\* C7: on the same archive, keywords, regex patterns and max_results the store
\* and the tool select the same ordered (file, line) pairs; both use a regex
\* pattern only after the safety validator passed it; a file that fails to
\* read contributes the same lines to both.
C7_SameAlgorithm ==
    StoreDone =>
        /\ sAll = tAll
        /\ OnlyValidated(tLog)
        /\ OnlyValidated(sLog)

\* "(" minus ")" among body[i..t]
Balance(body, i, t) ==
    Cardinality({u \in i..t : body[u] = "("}) - Cardinality({u \in i..t : body[u] = ")"})

\* body[j] is the ")" that closes the "(" at body[i]
ClosesAt(body, i, j) ==
    /\ body[i] = "("
    /\ body[j] = ")"
    /\ Balance(body, i, j) = 0
    /\ \A t \in i..(j - 1) : Balance(body, i, t) > 0

\* a parenthesized group whose content holds + or * and that + or * follows
QuantifiedGroupRepeated(body) ==
    \E i \in 1..Len(body) : \E j \in (i + 1)..(Len(body) - 1) :
        /\ ClosesAt(body, i, j)
        /\ body[j + 1] \in {"+", "*"}
        /\ \E t \in (i + 1)..(j - 1) : body[t] \in {"+", "*"}

\* a "{" followed by three or more digits
BraceThreeDigits(body) ==
    \E i \in 1..Len(body) :
        /\ body[i] = "{"
        /\ i + 3 <= Len(body)
        /\ \A t \in (i + 1)..(i + 3) : body[t] \in Digits

DangerousShape(pat) ==
    QuantifiedGroupRepeated(pat.body) \/ BraceThreeDigits(pat.body)

\* the logged _grep_file call compiled pat: the validator returned true for it
UsedIn(entry, pat) ==
    \E j \in 1..Len(entry.patterns) : entry.patterns[j] = RegexPattern(pat)

\* C8: the validator returns false for every pattern that holds a group
\* with a + or * inside it and a + or * right after it, whatever else the
\* group holds (nested parentheses included), and for every pattern that
\* holds a "{" followed by three or more digits.
C8_DangerousRejected ==
    \A i \in 1..Len(tLog) : \A j \in 1..Len(OrEmpty(regex_patterns)) :
        DangerousShape(OrEmpty(regex_patterns)[j])
            => ~UsedIn(tLog[i], OrEmpty(regex_patterns)[j])

\* C9: the validator returns false for every pattern longer than 500
\* characters and true for every pattern of at most 500 characters that
\* compiles and holds no dangerous shape (500 characters are not too long);
\* the tool's search opens the file with every pattern the validator accepts.
C9_ValidatorVerdict ==
    \A i \in 1..Len(tLog) : \A j \in 1..Len(OrEmpty(regex_patterns)) :
        LET pat == OrEmpty(regex_patterns)[j]
        IN  /\ PatternLen(pat) > 500 => ~UsedIn(tLog[i], pat)
            /\ (PatternLen(pat) <= 500 /\ Compiles(pat) /\ ~DangerousShape(pat))
                    => UsedIn(tLog[i], pat)
            /\ UsedIn(tLog[i], pat) => tLog[i].opened

\* kw stands at position q of line with no word character on either side
WholeWordAt(kw, line, q) ==
    /\ OccursAt(kw, line, q)
    /\ q = 1 \/ ~IsWord(line[q - 1])
    /\ q + Len(kw) > Len(line) \/ ~IsWord(line[q + Len(kw)])

\* some keyword occurs in line as a whole word, case-insensitively
WholeWordOccurs(kws, line) ==
    \E i \in 1..Len(kws) : \E q \in 1..Len(line) : WholeWordAt(kws[i], line, q)

\* the lines of the daily files that hold a keyword as a whole word
RECURSIVE WholeWordMatchesIn(_)
WholeWordMatchesIn(files) ==
    IF files = <<>> THEN <<>>
    ELSE LET hit(line) == WholeWordOccurs(OrEmpty(keywords), line)
             kept == SelectSeq(Head(files).lines, hit)
         IN  Pairs(Head(files).name, [i \in 1..Len(kept) |-> RStrip(kept[i])])
                 \o WholeWordMatchesIn(Tail(files))

\* C10: with a non-empty keyword list (and no regex pattern, no read error,
\* the cap not reached) a line of a daily file is selected iff a keyword
\* occurs in it as a whole word, case-insensitively and literally; also for
\* keywords that begin or end with a non-word character, such as "c++".
C10_WholeWordMatch ==
    LET expected == WholeWordMatchesIn(ToolDailyFiles(archive))
    IN  (/\ ~Falsy(keywords)
         /\ Falsy(regex_patterns)
         /\ Len(expected) < max_results
         /\ \A f \in archive.entries : ~ReadFails(f))
            => /\ ToolDone => tAll = expected
               /\ StoreDone => sAll = expected

\* k clamped to [1, 50]
Clamp(k) ==
    IF k < MinMaxResults THEN MinMaxResults
    ELSE IF k > MaxMaxResults THEN MaxMaxResults
    ELSE k

\* C11: execute clamps max_results to [1, 50]: the listing never holds more
\* than 50 results, a value below 1 behaves as 1, a value above 50 as 50
\* (an omitted max_results is 10).
C11_ClampedCap ==
    ToolDone =>
        /\ Len(tAll) <= 50
        /\ tAll = FirstK(ToolMatchesIn(ToolDailyFiles(archive)), Clamp(max_results))

\* the query holds no keyword and no regex pattern
EmptyQuery == keywords.items = <<>> /\ regex_patterns.items = <<>>

\* execute has ended, by a return or by an exception
ToolEnded == spc \in {"tool_done", "store_scan", "store_done", "listed"}
\* search_daily_memories has ended
StoreEnded == spc \in {"store_done", "listed"}

\* C12: a query with no keyword and no regex pattern (both absent or both
\* empty) is rejected before any I/O: the tool returns "Error: No keywords or
\* regex patterns provided", the store the empty result, neither enumerates
\* the directory or opens a file, whatever the archive holds.
C12_EmptyQueryRejected ==
    EmptyQuery =>
        /\ ToolEnded =>
            /\ tErr = NONE
            /\ tOut = "Error: No keywords or regex patterns provided"
            /\ tIO = <<>>
            /\ tLog = <<>>
        /\ StoreEnded =>
            /\ sErr = NONE
            /\ sOut = ""
            /\ sIO = <<>>
            /\ sLog = <<>>

C12_Witness ==
    /\ StoreEnded
    /\ EmptyQuery
    /\ keywords.given
    /\ regex_patterns.given
    /\ ToolDailyFiles(archive) # <<>>

\* four digits, a dash, two digits, a dash, two digits and ".md"
DateName(name) ==
    /\ Len(name) = 13
    /\ \A i \in 1..13 :
        IF i \in {5, 8} THEN name[i] = "-"
        ELSE IF i = 11 THEN name[i] = "."
        ELSE IF i = 12 THEN name[i] = "m"
        ELSE IF i = 13 THEN name[i] = "d"
        ELSE name[i] \in {"0", "1", "2", "3", "4", "5", "6", "7", "8", "9"}

\* the directory is missing or holds no regular file with a date name
NoDailyFile(dir) ==
    ~dir.exists \/ ~\E f \in dir.entries : f.isFile /\ DateName(f.name)

\* C13: with a non-empty query and no recognized daily file (directory
\* missing, empty, or holding only other names) the store returns the empty
\* result and the tool returns "No historical memory files found.", which is
\* not the text it returns when files exist and nothing matches.
C13_EmptyArchive ==
    (~EmptyQuery /\ NoDailyFile(archive)) =>
        /\ ToolEnded =>
            /\ tErr = NONE
            /\ tOut = "No historical memory files found."
            /\ tOut # ToolOutput(<<>>, keywords, regex_patterns)
            /\ tLog = <<>>
        /\ StoreEnded =>
            /\ sErr = NONE
            /\ sOut = ""
            /\ sLog = <<>>

C13_Witness ==
    /\ StoreEnded
    /\ ~EmptyQuery
    /\ archive.exists
    /\ archive.entries # {}
    /\ NoDailyFile(archive)

\* C14: execute always returns a text and never raises, whatever the query,
\* the archive directory (missing, not listable), the files (unreadable) and
\* the keyword and pattern lists (invalid or unsafe patterns, values that are
\* not strings) are.
C14_NeverRaises ==
    ToolEnded => (tErr = NONE /\ tOut # NONE)

\* the date a date name stands for, as a number
DateKey(name) ==
    LET d(i) == CharCode(name[i]) - 48
    IN  ((d(1) * 1000 + d(2) * 100 + d(3) * 10 + d(4)) * 100 + d(6) * 10 + d(7)) * 100
            + d(9) * 10 + d(10)

\* files is the regular files of dir with a date name, newest date first
IsDailyListing(files, dir) ==
    LET daily == IF dir.exists THEN {f \in dir.entries : f.isFile /\ DateName(f.name)}
                 ELSE {}
    IN  /\ {files[i] : i \in 1..Len(files)} = daily
        /\ Len(files) = Cardinality(daily)
        /\ \A i, j \in 1..Len(files) :
                i < j => DateKey(files[i].name) > DateKey(files[j].name)

\* C15: each enumeration of the archive (list_memory_files and the two
\* _get_daily_memory_files) returns exactly the regular files named dddd-dd-dd.md,
\* newest date first; every other entry (MEMORY.md, names with other
\* characters in the date positions, sub-directories) is left out.
C15_DailyFilesOnly ==
    /\ (spc = "tool_scan" /\ tLog = <<>>) => IsDailyListing(tFiles, archive)
    /\ (spc = "store_scan" /\ sLog = <<>>) => IsDailyListing(sFiles, archive)
    /\ spc = "listed" => IsDailyListing(listed, archive)

\* the query holds no keyword and only patterns the validator rejects
OnlyRejectedPatterns ==
    /\ keywords.items = <<>>
    /\ regex_patterns.items # <<>>
    /\ \A i \in 1..Len(regex_patterns.items) : ~ValidateRegex(regex_patterns.items[i])

\* C16: a query of the tool with no keyword and only regex patterns the
\* validator rejects, on an archive with a daily file, returns the
\* "No matches found for: ..." text whatever the files hold: no line is
\* reported and no error surfaces.
C16_RejectedPatternsNoMatch ==
    (OnlyRejectedPatterns /\ ~NoDailyFile(archive) /\ ToolEnded) =>
        /\ tErr = NONE
        /\ tAll = <<>>
        /\ tOut = "No matches found for: "
                    \o Join(", ", [i \in 1..Len(regex_patterns.items) |->
                                        Str(PatternChars(regex_patterns.items[i]))])

\* a rejected pattern that compiles and would match the file's line
C16_Witness ==
    /\ ToolEnded
    /\ OnlyRejectedPatterns
    /\ ~NoDailyFile(archive)
    /\ \E f \in archive.entries : \E i \in 1..Len(f.lines) :
            /\ Compiles(regex_patterns.items[1])
            /\ RegexSearch(regex_patterns.items[1], f.lines[i])

\* the file as it would be with no read error
Readable(f) == [f EXCEPT !.failAfter = NeverFails]

\* the matching lines of the files that read without error, newest file first,
\* as the tool's patterns find them
RECURSIVE ToolMatchesSkipping(_)
ToolMatchesSkipping(files) ==
    IF files = <<>> THEN <<>>
    ELSE (IF ReadFails(Head(files)) THEN <<>>
          ELSE Pairs(Head(files).name,
                     ToolGrepFile(Readable(Head(files)), OrEmpty(keywords),
                                  regex_patterns).results))
             \o ToolMatchesSkipping(Tail(files))

\* the same as the store's patterns find them
RECURSIVE StoreMatchesSkipping(_)
StoreMatchesSkipping(files) ==
    IF files = <<>> THEN <<>>
    ELSE (IF ReadFails(Head(files)) THEN <<>>
          ELSE Pairs(Head(files).name,
                     StoreGrepFile(Readable(Head(files)), OrEmpty(keywords),
                                   regex_patterns).results))
             \o StoreMatchesSkipping(Tail(files))

\* C17: a daily file that fails to read, on open or part-way through, is
\* skipped: it contributes no line, and the matches of the other files are
\* returned newest file first (up to a cap of at least 1), in the tool's and
\* in the store's search.
C17_UnreadableSkipped ==
    max_results >= 1 =>
        /\ ToolDone => tAll = FirstK(ToolMatchesSkipping(ToolDailyFiles(archive)),
                                      max_results)
        /\ StoreDone => sAll = FirstK(StoreMatchesSkipping(StoreDailyFiles(archive)),
                                       max_results)

(***************************************************************************)
(* Properties of the consolidation task.                                   *)
(***************************************************************************)
\* the timestamps of the batch that parse
ParseableStamps(msgs) ==
    {msgs[i].timestamp : i \in {j \in 1..Len(msgs) : msgs[j].timestamp.kind \in {"naive", "aware"}}}

\* "<HH:MM of the earliest>-<HH:MM of the latest>", or "Unknown time"
ExpectedTimeRange(msgs) ==
    LET stamps == ParseableStamps(msgs)
    IN  IF stamps = {} THEN "Unknown time"
        ELSE LET first == CHOOSE t \in stamps : \A u \in stamps : t.at <= u.at
                 last == CHOOSE t \in stamps : \A u \in stamps : t.at >= u.at
             IN  first.hhmm \o "-" \o last.hhmm

\* every role of the batch is a str
RolesAreStr(msgs) == \A i \in 1..Len(msgs) : msgs[i].role # NONSTR

\* C18: the task embeds "Time Range: <HH:MM of the earliest parseable
\* timestamp>-<HH:MM of the latest>" of the batch, ignoring turns whose
\* timestamp is missing or does not parse, and "Time Range: Unknown time"
\* when none parses (09:00 to 09:45 gives "Time Range: 09:00-09:45").
C18_TimeRange ==
    (pc # "idle" /\ batch # <<>> /\ RolesAreStr(batch)) =>
        /\ pc # "raised"
        /\ Len(messages) >= 2
        /\ messages[2] = UserTurn("Time Range: " \o ExpectedTimeRange(batch) \o "\n\n"
                                      \o FormatMessages(batch).val)


(***************************************************************************)
(* C19: fallback to DuckDuckGo when the key of brave or tavily is missing. *)
(***************************************************************************)
WebDone == wpc = "done"

\* the name of the key the configured provider needs, "" if it needs none
NeededKey ==
    CASE ProviderName(config) = "brave" -> "BRAVE_API_KEY"
      [] ProviderName(config) = "tavily" -> "TAVILY_API_KEY"
      [] OTHER -> ""

\* the key the configured provider needs is in neither the config nor the
\* environment
KeyMissing ==
    \/ NeededKey = "BRAVE_API_KEY" /\ config.api_key = "" /\ environ.BRAVE_API_KEY = ""
    \/ NeededKey = "TAVILY_API_KEY" /\ config.tavily_api_key = "" /\ environ.TAVILY_API_KEY = ""

FallbackCase ==
    WebDone /\ KeyMissing /\ config.fallback_to_duckduckgo_on_missing_key

DDG_URL == "https://html.duckduckgo.com/html/"

\* C19: when the provider is brave or tavily, its key is missing from the
\* config and the environment and the fallback is enabled, execute sends one
\* request, to DuckDuckGo, and, when the transport answers it, returns the
\* DuckDuckGo listing behind "Using DuckDuckGo fallback (<KEY_NAME> missing)."
C19_FallbackToDuckDuckGo ==
    FallbackCase =>
        /\ Len(requests) = 1
        /\ requests[1].url = DDG_URL
        /\ requests[1].key = ""
        /\ transport.ok =>
              wOut = "Using DuckDuckGo fallback (" \o NeededKey \o " missing).\n\n"
                     \o Listing(QUERY, invoked[1].n, transport, TRUE)

\* tavily without a key fell back and DuckDuckGo served two results
C19_Witness ==
    /\ FallbackCase
    /\ NeededKey = "TAVILY_API_KEY"
    /\ transport.ok
    /\ Len(transport.items) = MaxItems
    /\ StartsWith(wOut, "Using DuckDuckGo fallback (TAVILY_API_KEY missing).\n\nResults for: nanobot\n\n1. Nano bot\n   https://a.example\n2. ")

(***************************************************************************)
(* C20: a provider without its setting, and no fallback.                   *)
(***************************************************************************)
\* the name of the setting the configured provider needs, "" if none
NeededSetting ==
    IF NeededKey # "" THEN NeededKey
    ELSE IF ProviderName(config) = "searxng" THEN "SEARXNG_BASE_URL"
    ELSE ""

\* the value of that setting in the config and in the environment
InConfig ==
    CASE NeededSetting = "BRAVE_API_KEY" -> config.api_key
      [] NeededSetting = "TAVILY_API_KEY" -> config.tavily_api_key
      [] NeededSetting = "SEARXNG_BASE_URL" -> config.searxng_base_url
      [] OTHER -> ""
InEnvironment ==
    CASE NeededSetting = "BRAVE_API_KEY" -> environ.BRAVE_API_KEY
      [] NeededSetting = "TAVILY_API_KEY" -> environ.TAVILY_API_KEY
      [] NeededSetting = "SEARXNG_BASE_URL" -> environ.SEARXNG_BASE_URL
      [] OTHER -> ""

\* the provider lacks its setting and the DuckDuckGo fallback does not apply
LacksSetting ==
    /\ NeededSetting # ""
    /\ InConfig = ""
    /\ InEnvironment = ""
    /\ NeededKey # "" => ~config.fallback_to_duckduckgo_on_missing_key

\* the request of the configured provider carrying the environment's value
RequestFromEnvironment ==
    CASE NeededSetting = "BRAVE_API_KEY" ->
            [method |-> "GET", url |-> "https://api.search.brave.com/res/v1/web/search",
             key |-> InEnvironment]
      [] NeededSetting = "TAVILY_API_KEY" ->
            [method |-> "POST", url |-> "https://api.tavily.com/search", key |-> InEnvironment]
      [] NeededSetting = "SEARXNG_BASE_URL" ->
            [method |-> "GET", url |-> InEnvironment \o "/search", key |-> ""]

\* C20: a provider that lacks its setting, no fallback applying, makes execute
\* return exactly "Error: <SETTING_NAME> not configured" without any HTTP
\* request; a setting absent from the config and present in the environment
\* is the one the request is made with
C20_MissingSetting ==
    WebDone =>
        /\ LacksSetting =>
              /\ wOut = "Error: " \o NeededSetting \o " not configured"
              /\ requests = <<>>
        /\ (NeededSetting # "" /\ InConfig = "" /\ InEnvironment # "") =>
              /\ requests = <<RequestFromEnvironment>>
              /\ ~StartsWith(wOut, "Error: " \o NeededSetting)

\* brave without a key and without the fallback answered with the error
C20_Witness ==
    /\ WebDone
    /\ ProviderName(config) = "brave"
    /\ LacksSetting
    /\ wOut = "Error: BRAVE_API_KEY not configured"
    /\ requests = <<>>

\* searxng took its base URL from the environment
C20_WitnessEnvironment ==
    /\ WebDone
    /\ NeededSetting = "SEARXNG_BASE_URL"
    /\ InConfig = ""
    /\ requests = <<[method |-> "GET", url |-> "https://searx.env/search", key |-> ""]>>

(***************************************************************************)
(* C21: dispatch on the provider name through the provider map.            *)
(***************************************************************************)
\* the configured name, trimmed and lower-cased, empty meaning brave
DispatchName ==
    CASE config.provider \in {"", "brave"} -> "brave"
      [] config.provider = " Tavily " -> "tavily"
      [] config.provider = "DuckDuckGo" -> "duckduckgo"
      [] config.provider = "Custom " -> "custom"
      [] OTHER -> config.provider

\* the count the searcher is to receive
ExpectedCount ==
    LET wanted == IF count.given /\ count.value # 0 THEN count.value ELSE config.max_results
    IN  IF wanted < 1 THEN 1 ELSE IF wanted > 10 THEN 10 ELSE wanted

\* C21: execute invokes exactly one searcher, the one the provider map holds
\* at the time of the call under the configured name (trimmed, lower-cased,
\* empty meaning brave), the brave searcher when the map has no such name,
\* and hands it the query and the clamped count
C21_Dispatch ==
    WebDone =>
        /\ Len(invoked) = 1
        /\ invoked[1].searcher =
              (IF DispatchName \in DOMAIN provider_searchers
               THEN provider_searchers[DispatchName]
               ELSE provider_searchers["brave"])
        /\ invoked[1].query = QUERY
        /\ invoked[1].n = ExpectedCount
        /\ invoked[1].searcher = "_custom_provider" =>
              wOut = "custom:" \o QUERY \o ":" \o ToString(ExpectedCount)

\* a searcher registered under "custom" after construction served the call
C21_Witness ==
    /\ WebDone
    /\ config.provider = "Custom "
    /\ "custom" \in DOMAIN provider_searchers
    /\ count = Passed(2)
    /\ invoked = <<[searcher |-> "_custom_provider", query |-> "nanobot", n |-> 2]>>
    /\ wOut = "custom:nanobot:2"

(***************************************************************************)
(* C22: one consolidation run is strictly sequential.                      *)
(***************************************************************************)
\* the tool-result turns of the transcript
ToolResultTurns == Len(SelectSeq(messages, LAMBDA turn : turn.role = "tool"))

\* the invocations of the first r provider responses
RECURSIVE EmittedUpTo(_)
EmittedUpTo(r) == IF r = 0 THEN 0 ELSE EmittedUpTo(r - 1) + Len(emitted[r])

\* C22: a tool execution is started only when every execution started before
\* it has its tool-result turn in the transcript, and a provider call is made
\* only when every invocation of every earlier response has been executed and
\* has its tool-result turn
C22_StrictlySequential ==
    /\ Len(executed) <= ToolResultTurns + 1
    /\ Len(executed) = ToolResultTurns + 1 =>
          \/ pc = "tool"
          \/ pc = "done" /\ failure.reason = "tool crashed"
    /\ chatCalls <= Len(emitted) + 1
    /\ chatCalls = Len(emitted) + 1 =>
          \/ pc = "chat"
          \/ pc = "done" /\ failure.reason = "provider unavailable"
    /\ pc = "chat" =>
          /\ Len(executed) = ToolResultTurns
          /\ ToolResultTurns = EmittedUpTo(Len(emitted))

\* the third provider call is in flight after two rounds of two invocations
C22_Witness ==
    /\ pc = "chat"
    /\ chatCalls = 3
    /\ Len(emitted) = 2
    /\ Len(executed) = 4
    /\ ToolResultTurns = 4

(***************************************************************************)
(* C23: the shape of the transcript.                                       *)
(***************************************************************************)
\* the turns one answered response adds: the assistant turn, then one
\* tool-result turn per invocation
RoundTurns(calls) ==
    <<AssistantTurn(calls)>> \o [i \in 1..Len(calls) |-> ToolTurn(calls[i], "ok")]

\* the transcript after the first r responses
RECURSIVE TranscriptAfter(_)
TranscriptAfter(r) ==
    IF r = 0 THEN <<SystemTurn, UserTurn(BuildTaskDescription(batch).val)>>
    ELSE TranscriptAfter(r - 1) \o RoundTurns(emitted[r])

IsPrefix(s, t) == Len(s) <= Len(t) /\ SubSeq(t, 1, Len(s)) = s

\* the transcript a provider call in flight was given
TranscriptAtCall == pc = "chat" => messages = TranscriptAfter(Len(emitted))

\* C23: the transcript given to a provider call is the system instruction,
\* the task as first user turn, then for each earlier response in order its
\* assistant turn followed by one tool-result turn per invocation; the
\* transcript changes by appending only
C23_TranscriptInvariant ==
    /\ []TranscriptAtCall
    /\ [][IsPrefix(messages, messages')]_vars

\* the third provider call is given the turns of two rounds
C23_Witness ==
    /\ pc = "chat"
    /\ chatCalls = 3
    /\ Len(emitted[1]) = 2
    /\ Len(emitted[2]) = 1
    /\ Len(messages) = 7
    /\ messages[3].role = "assistant"
    /\ messages[4].role = "tool"
    /\ messages[5].role = "tool"
    /\ messages[6].role = "assistant"
    /\ messages[7].role = "tool"

(***************************************************************************)
(* C24: a run ends in one of three terminal states.                        *)
(***************************************************************************)
RunSucceeded == pc = "done" /\ failure.reason = NONE /\ result = MSG_DONE
RunExhausted == pc = "done" /\ failure.reason = NONE /\ result = MSG_MAX
RunFailed == pc = "done" /\ failure.reason # NONE /\ result = FailureResult(failure.reason)

Terminal == RunSucceeded \/ RunExhausted \/ RunFailed

\* C24: a run on a non-empty batch whose provider calls and tool executions
\* all return or raise reaches Success, Exhausted or Failed, and from then on
\* makes no provider call and executes no tool
C24_ReachesTerminal ==
    /\ (pc = "idle" /\ batch # <<>>) ~> Terminal
    /\ [][Terminal => (Terminal' /\ chatCalls' = chatCalls /\ executed' = executed)]_vars

\* the run ended by exhaustion
C24_Witness == RunExhausted /\ batch # <<>> /\ chatCalls = MaxIterations

(***************************************************************************)
(* C25: the scan stops when the cap is reached.                            *)
(***************************************************************************)
\* the results of all taken from the file of that name
TakenFrom(all, name) == Len(SelectSeq(all, LAMBDA r : r.file = name))

\* the fewest leading lines of a file that hold m lines the patterns match
NeededLines(compiled, lines, m) ==
    CHOOSE p \in 0..Len(lines) :
        /\ Len(MatchingLines(compiled, SubSeq(lines, 1, p))) >= Min(m, Len(MatchingLines(compiled, lines)))
        /\ \A q \in 0..(p - 1) :
              Len(MatchingLines(compiled, SubSeq(lines, 1, q))) < Min(m, Len(MatchingLines(compiled, lines)))

\* the results gathered once the first j logged files have been scanned
RECURSIVE TakenUpTo(_, _, _)
TakenUpTo(log, all, j) ==
    IF j = 0 THEN 0 ELSE TakenUpTo(log, all, j - 1) + TakenFrom(all, log[j].file)

\* a search that reached its cap opened no file after reaching it and tested
\* no line after the one that gave the last result
StoppedAtCap(log, all) ==
    /\ \A j \in 1..(Len(log) - 1) : TakenUpTo(log, all, j) < max_results
    /\ LET last == log[Len(log)]
           f == CHOOSE e \in archive.entries : e.name = last.file
       IN  last.tested <= NeededLines(last.patterns, f.lines, TakenFrom(all, last.file))

\* C25: once the accumulated results reach max_results the search tests no
\* further line, in the file being scanned or in any other, and opens no
\* remaining file
C25_StopsAtCap ==
    /\ (ToolDone /\ max_results >= 1 /\ Len(tAll) >= max_results) => StoppedAtCap(tLog, tAll)
    /\ (StoreDone /\ max_results >= 1 /\ Len(sAll) >= max_results) => StoppedAtCap(sLog, sAll)

\* no file is opened after the one in which the cap was reached
C25_NoFileAfterCap ==
    /\ (ToolDone /\ max_results >= 1 /\ Len(tAll) >= max_results) =>
          \A j \in 1..(Len(tLog) - 1) : TakenUpTo(tLog, tAll, j) < max_results
    /\ (StoreDone /\ max_results >= 1 /\ Len(sAll) >= max_results) =>
          \A j \in 1..(Len(sLog) - 1) : TakenUpTo(sLog, sAll, j) < max_results

(***************************************************************************)
(* C26: the listing of a successful search.                                *)
(***************************************************************************)
\* "{i}. [{filename}] {line}" and a newline, for the entries i..n of all
RECURSIVE NumberedEntries(_, _)
NumberedEntries(all, i) ==
    IF i > Len(all) THEN ""
    ELSE ToString(i) \o ". [" \o Str(all[i].file) \o "] " \o Str(all[i].line) \o "\n"
            \o NumberedEntries(all, i + 1)

\* s can be had from t by leaving elements out
RECURSIVE IsSubsequence(_, _)
IsSubsequence(s, t) ==
    IF s = <<>> THEN TRUE
    ELSE IF t = <<>> THEN FALSE
    ELSE IF Head(s) = Head(t) THEN IsSubsequence(Tail(s), Tail(t))
    ELSE IsSubsequence(s, Tail(t))

\* the lines of all that come from the file of that name, in listing order
LinesFrom(all, name) ==
    LET own == SelectSeq(all, LAMBDA r : r.file = name)
    IN  [i \in 1..Len(own) |-> own[i].line]

\* entries in match order: dates never increase, the entries of a file keep
\* the order of its lines, and no line ends in whitespace
InMatchOrder(all) ==
    /\ \A i \in 1..(Len(all) - 1) : DateKey(all[i].file) >= DateKey(all[i + 1].file)
    /\ \A f \in archive.entries :
          IsSubsequence(LinesFrom(all, f.name), [i \in 1..Len(f.lines) |-> RStrip(f.lines[i])])
    /\ \A i \in 1..Len(all) :
          /\ \E f \in archive.entries : f.name = all[i].file
          /\ all[i].line = <<>> \/ ~IsSpace(all[i].line[Len(all[i].line)])

\* C26: the listing of a successful search is "Found n relevant memories:"
\* with n the number of entries, then the entries "{i}. [{filename}] {line}"
\* numbered 1..n in match order: file dates never increase, the entries of a
\* file are in its line order, every line is right-trimmed
C26_ListingFormat ==
    (ToolDone /\ StartsWith(tOut, "Found ")) =>
        /\ tOut = "Found " \o ToString(Len(tAll)) \o " relevant memories:\n\n"
                    \o NumberedEntries(tAll, 1)
        /\ Len(tAll) >= 1
        /\ InMatchOrder(tAll)

\* two entries from two files, the newer first, a line right-trimmed
C26_Witness ==
    /\ ToolDone
    /\ tOut = "Found 2 relevant memories:\n\n1. [2024-01-02.md] c\n2. [2024-01-01.md] c\n"

(***************************************************************************)
(* C27: the text of a search without a match.                              *)
(***************************************************************************)
\* the supplied keywords and the supplied regex patterns, as text
KeywordTerms == [i \in 1..Len(OrEmpty(keywords)) |-> Str(OrEmpty(keywords)[i])]
PatternTerms ==
    [i \in 1..Len(OrEmpty(regex_patterns)) |-> Str(PatternChars(OrEmpty(regex_patterns)[i]))]

\* the tool scanned daily files and found nothing
NothingMatched == ToolDone /\ tLog # <<>> /\ tAll = <<>> /\ tOut # NONE

\* C27: when daily files exist and nothing matches, execute returns
\* "No matches found for: <terms>", <terms> being every supplied keyword and
\* every supplied regex pattern, also when both kinds were supplied
C27_NoMatchListsAllTerms ==
    NothingMatched =>
        tOut \in {"No matches found for: " \o Join(", ", KeywordTerms \o PatternTerms),
                  "No matches found for: " \o Join(", ", PatternTerms \o KeywordTerms)}

\* with one kind of term supplied the text lists all of them
C27_OneKindListed ==
    (NothingMatched /\ (KeywordTerms = <<>> \/ PatternTerms = <<>>)) =>
        tOut = "No matches found for: " \o Join(", ", KeywordTerms \o PatternTerms)

(***************************************************************************)
(* C28: the count handed to the searcher and the length of the listing.    *)
(***************************************************************************)
\* the text split at its newlines
RECURSIVE SplitLines(_, _)
SplitLines(text, from) ==
    LET ends == {i \in from..Len(text) : SubSeq(text, i, i) = "\n"}
    IN  IF ends = {} THEN <<SubSeq(text, from, Len(text))>>
        ELSE LET stop == CHOOSE i \in ends : \A j \in ends : i <= j
             IN  <<SubSeq(text, from, stop - 1)>> \o SplitLines(text, stop + 1)

\* the number a line of a listing starts with ("7. title"), 0 if none
EntryNumber(line) ==
    LET nums == {k \in 1..20 : StartsWith(line, ToString(k) \o ". ")}
    IN  IF nums = {} THEN 0 ELSE CHOOSE k \in nums : TRUE

\* the numbers of the entries of a listing, top to bottom
EntryNumbers(text) ==
    LET lines == SplitLines(text, 1)
        numbers == [i \in 1..Len(lines) |-> EntryNumber(lines[i])]
    IN  SelectSeq(numbers, LAMBDA k : k # 0)

\* C28: the searcher receives a count n in [1, 10], the requested count
\* clamped to that range with an absent or zero count replaced by the
\* configured max_results first; the listing returned has at most n entries,
\* numbered from 1
C28_CountInRange ==
    WebDone =>
        /\ invoked[1].n >= 1
        /\ invoked[1].n <= 10
        /\ invoked[1].n = ExpectedCount
        /\ Len(EntryNumbers(wOut)) <= invoked[1].n
        /\ EntryNumbers(wOut) = [i \in 1..Len(EntryNumbers(wOut)) |-> i]
        /\ (transport.ok /\ StartsWith(wOut, "Results for: ")) =>
              Len(EntryNumbers(wOut)) = Min(invoked[1].n, Len(transport.items))

\* eleven results were served and ten listed, the count asked being 11
C28_Witness ==
    /\ WebDone
    /\ count = Passed(11)
    /\ Len(transport.items) = 11
    /\ invoked[1].n = 10
    /\ EntryNumbers(wOut) = <<1, 2, 3, 4, 5, 6, 7, 8, 9, 10>>

\* an absent count with max_results 0 gave one result out of two
C28_WitnessLow ==
    /\ WebDone
    /\ count = Omitted
    /\ config.max_results = 0
    /\ Len(transport.items) = 2
    /\ EntryNumbers(wOut) = <<1>>

(***************************************************************************)
(* C29: the run that exhausts its iterations.                              *)
(***************************************************************************)
\* every invocation of response r was executed, in order
AllExecuted(r) ==
    /\ Len(ExecutedIn(r)) = Len(emitted[r])
    /\ \A i \in 1..Len(emitted[r]) : ExecutedIn(r)[i].id = emitted[r][i].id

\* C29: when the run returns the max-iterations message, the invocations of
\* all 10 provider responses, the 10th included, have been executed and their
\* tool-result turns appended, and no provider call was given the results of
\* the 10th round: 10 calls were made, each before its own round
C29_ExhaustionAfterTenthRound ==
    /\ (pc = "done" /\ result = "Memory consolidation completed (max iterations reached)") =>
          /\ Len(emitted) = 10
          /\ chatCalls = 10
          /\ \A r \in 1..10 : emitted[r] # <<>> /\ AllExecuted(r)
          /\ Len(executed) = EmittedUpTo(10)
          /\ messages = TranscriptAfter(10)
    /\ pc = "chat" =>
          /\ chatCalls <= 10
          /\ Len(emitted) = chatCalls - 1
          /\ Len(messages) = 2 + (chatCalls - 1) + EmittedUpTo(chatCalls - 1)

\* ten rounds, the last of two invocations, then the max-iterations message
C29_Witness ==
    /\ pc = "done"
    /\ result = "Memory consolidation completed (max iterations reached)"
    /\ Len(emitted) = 10
    /\ Len(emitted[10]) = 2
    /\ messages[Len(messages)].role = "tool"
    /\ messages[Len(messages)].tool_call_id = emitted[10][2].id
====
